---- MODULE Spec2Model ----
(***************************************************************************)
(* Solar lead scoring: BillEstimator, RoofAnalyzer, LeadScoringEngine and  *)
(* LeadScoringService, modelled from the Python sources.                   *)
(*                                                                         *)
(* Python dicts are functions whose DOMAIN is the set of keys present.     *)
(* Python numbers are exact rationals [n, d] (d > 0, lowest terms), so a   *)
(* score such as 50 + (a - 400) * 30 / 400 keeps its fractional part.      *)
(* A field that may hold None or a value of the wrong type is tagged:      *)
(* [num |-> 5], [str |-> <<7,8,7,0,1>>], None.                             *)
(***************************************************************************)
EXTENDS Integers, Sequences, FiniteSets, TLC

VARIABLES
    min_requirements,  \* LeadScoringEngine.min_requirements (configuration)
    property_data,     \* the caller's property record (or None)
    utility_data,      \* the caller's utility record (or None)
    roof_data,         \* the caller's roof record (or None)
    owner_data,        \* the caller's owner record (or None)
    month,             \* the month argument: <<>> (None) or <<m>>
    current_year,      \* datetime.now().year
    leads_data,        \* the caller's batch: a sequence of lead dicts whose
                       \* utility_data is an index into utility_heap (0: None)
    utility_heap,      \* the utility dict objects the batch's leads refer to
    op,                \* the operation that produced result ("none" at start)
    result,            \* what the last operation returned, or Raised(..)
    climate_zones,     \* BillEstimator.climate_zones (configuration)
    weights,           \* the engines' weights (configuration), by class
    batch_results,     \* the results list of the last batch_score_leads, as
                       \* its loop left it
    database           \* Database: the rows of each table, and the insert
                       \* calls made so far

vars == <<min_requirements, property_data, utility_data, roof_data,
          owner_data, month, current_year, leads_data, utility_heap, op,
          result, batch_results, climate_zones, weights, database>>

----------------------------------------------------------------------------
(* Python values *)

None == [none |-> TRUE]
Num(v) == [num |-> v]
Str(s) == [str |-> s]
IsNum(v) == "num" \in DOMAIN v
IsStr(v) == "str" \in DOMAIN v

EmptyDict == <<>>
Has(d, k) == k \in DOMAIN d
\* bool(d) for a dict or None
Truthy(d) == d # None /\ DOMAIN d # {}

\* a call that let an exception escape to its caller
Raised(e) == [raised |-> e]
IsRaised(r) == "raised" \in DOMAIN r

\* an optional input: <<>> (absent) or <<v>>
Opt(S) == {<<>>} \cup {<<v>> : v \in S}
Field(k, o) == IF o = <<>> THEN EmptyDict ELSE (k :> o[1])

----------------------------------------------------------------------------
(* Exact arithmetic *)

Abs(a) == IF a < 0 THEN -a ELSE a

RECURSIVE GCD(_, _)
GCD(a, b) == IF b = 0 THEN a ELSE GCD(b, a % b)

Rat(n, d) ==
    LET s == IF d < 0 THEN -1 ELSE 1
        g == GCD(Abs(n), Abs(d))
    IN  [n |-> (s * n) \div g, d |-> (s * d) \div g]

I(k) == [n |-> k, d |-> 1]
\* sums and products reduce before multiplying, to keep the terms small
RAdd(x, y) ==
    IF x.n = 0 THEN y
    ELSE IF y.n = 0 THEN x
    ELSE LET g == GCD(x.d, y.d)
         IN  Rat(x.n * (y.d \div g) + y.n * (x.d \div g), (x.d \div g) * y.d)
RNeg(x) == [n |-> -x.n, d |-> x.d]
RSub(x, y) == RAdd(x, RNeg(y))
RMul(x, y) ==
    LET g1 == GCD(Abs(x.n), y.d)
        g2 == GCD(Abs(y.n), x.d)
    IN  IF x.n = 0 \/ y.n = 0 THEN [n |-> 0, d |-> 1]
        ELSE Rat((x.n \div g1) * (y.n \div g2), (x.d \div g2) * (y.d \div g1))
\* x / y for y # 0
RDiv(x, y) ==
    RMul(x, IF y.n < 0 THEN [n |-> -y.d, d |-> -y.n] ELSE [n |-> y.d, d |-> y.n])
\* comparisons over the least common denominator
RLt(x, y) ==
    LET g == GCD(x.d, y.d) IN x.n * (y.d \div g) < y.n * (x.d \div g)
RLe(x, y) ==
    LET g == GCD(x.d, y.d) IN x.n * (y.d \div g) <= y.n * (x.d \div g)
RAbs(x) == [n |-> Abs(x.n), d |-> x.d]

\* Python round(x): nearest integer, ties to the even one
Round(x) ==
    LET q == x.n \div x.d
        r == x.n % x.d
    IN  IF 2 * r < x.d THEN q
        ELSE IF 2 * r > x.d THEN q + 1
        ELSE IF q % 2 = 0 THEN q ELSE q + 1

\* Python round(x, 2)
Round2(x) == Rat(Round(RMul(x, I(100))), 100)

----------------------------------------------------------------------------
(* RoofAnalyzer (src/roof_analyzer.py), default configuration *)

MinUsableArea == 400
MaxShading == 40
OptimalAzimuth == 180
OptimalPitch == 25

RoofWeights ==
    [orientation |-> Rat(35, 100), area |-> Rat(25, 100),
     shading |-> Rat(20, 100), pitch |-> Rat(10, 100),
     condition |-> Rat(10, 100)]

\* the cardinal-direction table; .get(orientation, 50)
OrientationTable(o) ==
    CASE o = "S" -> 100
      [] o \in {"SE", "SW"} -> 90
      [] o \in {"E", "W"} -> 70
      [] o \in {"NE", "NW"} -> 40
      [] o = "N" -> 20
      [] OTHER -> 50

\* str.lower() on the condition strings the inputs use
Lower(s) ==
    CASE s = "Good" -> "good"
      [] s = "FAIR" -> "fair"
      [] s = "Single-Family" -> "single-family"
      [] OTHER -> s

\* the condition table; .get(condition, 50)
ConditionTable(c) ==
    CASE c = "excellent" -> 100
      [] c = "good" -> 80
      [] c = "fair" -> 60
      [] c = "poor" -> 30
      [] c = "very poor" -> 10
      [] OTHER -> 50

\* variant: the deviation is measured against the full circle
calculate_orientation_score_FullCircle(roof) ==
    IF Has(roof, "azimuth") THEN
        LET dev0 == Abs(roof["azimuth"] - OptimalAzimuth)
            deviation == IF dev0 > 180 THEN 360 - dev0 ELSE dev0
        IN  RSub(I(100), RMul(Rat(deviation, 360), I(100)))
    ELSE IF Has(roof, "primary_orientation") THEN
        I(OrientationTable(roof["primary_orientation"]))
    ELSE I(50)

calculate_orientation_score(roof) ==
    IF Has(roof, "azimuth") THEN
        LET dev0 == Abs(roof["azimuth"] - OptimalAzimuth)
            deviation == IF dev0 > 180 THEN 360 - dev0 ELSE dev0
        IN  RSub(I(100), RMul(Rat(deviation, 180), I(100)))
    ELSE IF Has(roof, "primary_orientation") THEN
        I(OrientationTable(roof["primary_orientation"]))
    ELSE I(50)

\* variant: the upper ramp starts from 75 points at 800 square feet
AreaRamp_UpperRampFrom75(area) ==
    IF RLt(area, I(MinUsableArea)) THEN I(0)
    ELSE IF RLe(I(1200), area) THEN I(100)
    ELSE IF RLe(I(800), area) THEN
        RAdd(I(75), RDiv(RMul(RSub(area, I(800)), I(25)), I(400)))
    ELSE RAdd(I(50), RDiv(RMul(RSub(area, I(MinUsableArea)), I(30)),
                          I(800 - MinUsableArea)))

\* the two-segment ramp shared by both branches of calculate_area_score;
\* area is a rational number of square feet
AreaRamp(area) ==
    IF RLt(area, I(MinUsableArea)) THEN I(0)
    ELSE IF RLe(I(1200), area) THEN I(100)
    ELSE IF RLe(I(800), area) THEN
        RAdd(I(80), RDiv(RMul(RSub(area, I(800)), I(20)), I(400)))
    ELSE RAdd(I(50), RDiv(RMul(RSub(area, I(MinUsableArea)), I(30)),
                          I(800 - MinUsableArea)))

calculate_area_score(roof) ==
    IF Has(roof, "usable_roof_area") THEN AreaRamp(I(roof["usable_roof_area"]))
    ELSE IF Has(roof, "total_roof_area") THEN
        AreaRamp(RMul(I(roof["total_roof_area"]), Rat(6, 10)))
    ELSE I(0)

calculate_shading_score(roof) ==
    IF Has(roof, "shading_percentage") THEN
        IF roof["shading_percentage"] > MaxShading THEN I(0)
        ELSE RSub(I(100),
                  RMul(Rat(roof["shading_percentage"], MaxShading), I(100)))
    ELSE I(50)

calculate_pitch_score(roof) ==
    IF Has(roof, "pitch") THEN
        LET deviation == Abs(roof["pitch"] - OptimalPitch)
        IN  IF deviation >= 30 THEN I(0)
            ELSE RSub(I(100), RMul(Rat(deviation, 30), I(100)))
    ELSE I(50)

calculate_condition_score(roof) ==
    IF Has(roof, "roof_condition") THEN
        I(ConditionTable(Lower(roof["roof_condition"])))
    ELSE IF Has(roof, "roof_age") THEN
        LET age == roof["roof_age"]
        IN  IF age <= 2 THEN I(100)
            ELSE IF age <= 5 THEN I(90)
            ELSE IF age <= 10 THEN I(75)
            ELSE IF age <= 15 THEN I(60)
            ELSE IF age <= 20 THEN I(40)
            ELSE I(20)
    ELSE I(50)

\* the disqualification test of analyze_roof_suitability
\* a disqualification test that forgets the area
RoofDisqualified_ShadingOnly(area_score, shading_score) == shading_score = I(0)

RoofDisqualified(area_score, shading_score) ==
    area_score = I(0) \/ shading_score = I(0)

RoofWeightedSum(o, a, s, p, c) ==
    RAdd(RAdd(RAdd(RAdd(RMul(o, weights.RoofAnalyzer.orientation),
                        RMul(a, weights.RoofAnalyzer.area)),
                   RMul(s, weights.RoofAnalyzer.shading)),
              RMul(p, weights.RoofAnalyzer.pitch)),
         RMul(c, weights.RoofAnalyzer.condition))

RoofBand(overall) ==
    IF RLe(I(80), overall) THEN "excellent"
    ELSE IF RLe(I(65), overall) THEN "good"
    ELSE IF RLe(I(50), overall) THEN "average"
    ELSE IF RLe(I(35), overall) THEN "poor"
    ELSE "unsuitable"

RoofMessage(overall) ==
    IF RLe(I(80), overall) THEN "Roof is excellent for solar installation"
    ELSE IF RLe(I(65), overall) THEN "Roof is well-suited for solar installation"
    ELSE IF RLe(I(50), overall) THEN "Roof is acceptable for solar installation"
    ELSE IF RLe(I(35), overall)
        THEN "Roof has significant limitations for solar installation"
    ELSE "Roof is not recommended for solar installation"

\* The record returned for a well-typed roof record (the fields of the model's
\* roof records never raise, so the except branch is not taken).  The
\* recommendation texts and the timestamp are left out.
analyze_roof_suitability(roof) ==
    IF ~Truthy(roof) THEN
        [overall_score |-> 0, message |-> "No roof data available"]
    ELSE
        LET o == calculate_orientation_score(roof)
            a == calculate_area_score(roof)
            s == calculate_shading_score(roof)
            p == calculate_pitch_score(roof)
            c == calculate_condition_score(roof)
            dq == RoofDisqualified(a, s)
            overall == IF dq THEN I(0) ELSE RoofWeightedSum(o, a, s, p, c)
        IN  [overall_score |-> Round(overall),
             suitability |-> IF dq THEN "unsuitable" ELSE RoofBand(overall),
             message |-> IF dq
                 THEN "Roof does not meet minimum requirements for solar installation"
                 ELSE RoofMessage(overall),
             component_scores |->
                 [orientation |-> Round(o), area |-> Round(a),
                  shading |-> Round(s), pitch |-> Round(p),
                  condition |-> Round(c)]]

----------------------------------------------------------------------------
(* LeadScoringEngine (src/lead_scoring.py) *)

\* an exception raised inside a try block, before it is caught
Exc(e) == [exc |-> e]
IsExc(x) == "exc" \in DOMAIN x

LeadWeights ==
    [bill_size |-> Rat(30, 100), roof_suitability |-> Rat(25, 100),
     property_value |-> Rat(15, 100), net_metering |-> Rat(20, 100),
     homeowner |-> Rat(10, 100)]

\* the weights of the two engines when the configuration supplies none
DefaultWeights == [RoofAnalyzer |-> RoofWeights, LeadScoringEngine |-> LeadWeights]

DefaultMinRequirements == [monthly_bill |-> 120, roof_score |-> 30]

\* a bill ramp that keeps climbing past $300
BillRamp_Uncapped(monthly_bill) ==
    IF RLt(monthly_bill, I(120)) THEN I(0)
    ELSE IF RLe(I(200), monthly_bill) THEN
        RAdd(I(80), RDiv(RMul(RSub(monthly_bill, I(200)), I(20)), I(100)))
    ELSE RAdd(I(50), RDiv(RMul(RSub(monthly_bill, I(120)), I(30)), I(80)))

\* variant: the lower ramp climbs 20 points instead of 30 and so stops at 70
BillRamp_LowerRampShort(monthly_bill) ==
    IF RLt(monthly_bill, I(120)) THEN I(0)
    ELSE IF RLe(I(300), monthly_bill) THEN I(100)
    ELSE IF RLe(I(200), monthly_bill) THEN
        RAdd(I(80), RDiv(RMul(RSub(monthly_bill, I(200)), I(20)), I(100)))
    ELSE RAdd(I(50), RDiv(RMul(RSub(monthly_bill, I(120)), I(20)), I(80)))

\* the piecewise-linear score of a monthly bill (a rational number of dollars)
BillRamp(monthly_bill) ==
    IF RLt(monthly_bill, I(120)) THEN I(0)
    ELSE IF RLe(I(300), monthly_bill) THEN I(100)
    ELSE IF RLe(I(200), monthly_bill) THEN
        RAdd(I(80), RDiv(RMul(RSub(monthly_bill, I(200)), I(20)), I(100)))
    ELSE RAdd(I(50), RDiv(RMul(RSub(monthly_bill, I(120)), I(30)), I(80)))

\* the bill the engine scores: the utility record's estimate, else $0.10 per
\* square foot, else 0; a TypeError when property_data is None or its
\* square_footage is not a number
LeadMonthlyBill(property, utility) ==
    IF Truthy(utility) /\ Has(utility, "estimated_monthly_bill") THEN
        utility["estimated_monthly_bill"]
    ELSE IF property = None THEN Exc("TypeError")
    ELSE IF Has(property, "square_footage") THEN
        IF IsNum(property["square_footage"])
            THEN RMul(I(property["square_footage"].num), Rat(1, 10))
            ELSE Exc("TypeError")
    ELSE I(0)

calculate_bill_score(property, utility) ==
    LET monthly_bill == LeadMonthlyBill(property, utility)
    IN  IF IsExc(monthly_bill) THEN monthly_bill ELSE BillRamp(monthly_bill)

calculate_roof_score(property, roof) ==
    IF ~Truthy(roof) THEN I(50)
    ELSE IF Has(roof, "overall_score") THEN I(roof["overall_score"])
    ELSE
        LET o == IF Has(roof, "primary_orientation")
                 THEN RMul(I(OrientationTable(roof["primary_orientation"])),
                           Rat(4, 10))
                 ELSE I(0)
            a == IF Has(roof, "usable_roof_area") THEN
                     LET usable_area == roof["usable_roof_area"]
                         area_score ==
                             IF usable_area < 400 THEN I(0)
                             ELSE IF usable_area >= 1200 THEN I(100)
                             ELSE RAdd(I(50), Rat((usable_area - 400) * 50, 800))
                     IN  RMul(area_score, Rat(3, 10))
                 ELSE I(0)
            s == IF Has(roof, "shading_percentage") THEN
                     LET shading_pct == roof["shading_percentage"]
                         shading_score ==
                             IF shading_pct > 40 THEN I(0)
                             ELSE RSub(I(100), RMul(Rat(shading_pct, 40), I(100)))
                     IN  RMul(shading_score, Rat(2, 10))
                 ELSE I(0)
            c == IF Has(roof, "roof_condition")
                 THEN RMul(I(ConditionTable(Lower(roof["roof_condition"]))),
                           Rat(1, 10))
                 ELSE I(0)
        IN  RAdd(RAdd(RAdd(o, a), s), c)

calculate_property_score(property) ==
    IF property = None THEN Exc("TypeError")
    ELSE IF Has(property, "is_owner_occupied") /\ ~property["is_owner_occupied"]
        THEN I(0)
    ELSE IF Has(property, "has_solar_permit") /\ property["has_solar_permit"]
        THEN I(0)
    ELSE
        LET occ == IF Has(property, "is_owner_occupied") THEN I(40) ELSE I(0)
            typ == IF Has(property, "property_type") THEN
                       IF property["property_type"] = "Single-Family" THEN I(30)
                       ELSE IF property["property_type"] = "Multi-Family"
                           THEN I(15)
                       ELSE I(0)
                   ELSE I(0)
            val == IF Has(property, "property_value") THEN
                       LET value == property["property_value"]
                           value_score ==
                               IF value >= 500000 THEN 100
                               ELSE IF value >= 300000 THEN 80
                               ELSE IF value >= 200000 THEN 60
                               ELSE IF value >= 100000 THEN 40
                               ELSE 20
                       IN  RMul(I(value_score), Rat(2, 10))
                   ELSE I(0)
            permit == IF Has(property, "has_solar_permit") THEN I(10) ELSE I(0)
        IN  RAdd(RAdd(RAdd(occ, typ), val), permit)

calculate_net_metering_score(property, utility) ==
    IF ~Truthy(utility) THEN I(50)
    ELSE
        LET nm == IF Has(utility, "net_metering_available") THEN
                      IF utility["net_metering_available"] THEN I(60) ELSE I(18)
                  ELSE I(0)
            rt == IF Has(utility, "residential") THEN
                      LET rate == utility["residential"]
                          rate_score ==
                              IF RLe(Rat(14, 100), rate) THEN 100
                              ELSE IF RLe(Rat(12, 100), rate) THEN 80
                              ELSE IF RLe(Rat(10, 100), rate) THEN 60
                              ELSE IF RLe(Rat(8, 100), rate) THEN 40
                              ELSE 20
                      IN  RMul(I(rate_score), Rat(4, 10))
                  ELSE I(0)
        IN  RAdd(nm, rt)

calculate_homeowner_score(property, owner) ==
    IF ~Truthy(owner) THEN I(50)
    ELSE
        LET has_phone == Has(owner, "phone") /\ owner["phone"] # ""
            has_email == Has(owner, "email") /\ owner["email"] # ""
            contact_score == IF has_phone /\ has_email THEN 100
                             ELSE IF has_phone THEN 70
                             ELSE IF has_email THEN 60
                             ELSE 0
            dnc == IF Has(owner, "do_not_call") THEN
                       IF owner["do_not_call"] THEN I(0) ELSE I(30)
                   ELSE I(0)
            own == IF Has(owner, "ownership_years") THEN
                       LET years == owner["ownership_years"]
                           ownership_score == IF years >= 5 THEN 100
                                              ELSE IF years >= 3 THEN 80
                                              ELSE IF years >= 1 THEN 60
                                              ELSE 40
                       IN  RMul(I(ownership_score), Rat(3, 10))
                   ELSE I(0)
        IN  RAdd(RAdd(RMul(I(contact_score), Rat(4, 10)), dnc), own)

\* Python None in the disqualification_reason field
NoReason == "None"

\* a disqualification test that forgets the bill
DisqualificationReason_RoofOnly(bill_score, roof_score, minreq) ==
    IF RLt(roof_score, I(minreq.roof_score))
        THEN "Roof unsuitable for solar installation"
    ELSE NoReason

\* the disqualification test of calculate_overall_score: the bill SCORE is
\* compared with min_requirements['monthly_bill'], then the roof score with
\* min_requirements['roof_score']
\* variant: the roof is checked before the bill
DisqualificationReason_RoofFirst(bill_score, roof_score, minreq) ==
    IF RLt(roof_score, I(minreq.roof_score))
        THEN "Roof unsuitable for solar installation"
    ELSE IF RLt(bill_score, I(minreq.monthly_bill))
        THEN "Monthly bill below minimum threshold"
    ELSE NoReason

DisqualificationReason(bill_score, roof_score, minreq) ==
    IF RLt(bill_score, I(minreq.monthly_bill))
        THEN "Monthly bill below minimum threshold"
    ELSE IF RLt(roof_score, I(minreq.roof_score))
        THEN "Roof unsuitable for solar installation"
    ELSE NoReason

LeadWeightedSum(b, r, p, m, h) ==
    RAdd(RAdd(RAdd(RAdd(RMul(b, weights.LeadScoringEngine.bill_size),
                        RMul(r, weights.LeadScoringEngine.roof_suitability)),
                   RMul(p, weights.LeadScoringEngine.property_value)),
              RMul(m, weights.LeadScoringEngine.net_metering)),
         RMul(h, weights.LeadScoringEngine.homeowner))

\* an overall score that is not zeroed on disqualification
LeadOverall_NotZeroed(disqualified, b, r, p, m, h) ==
    LeadWeightedSum(b, r, p, m, h)

LeadOverall(disqualified, b, r, p, m, h) ==
    IF disqualified THEN I(0) ELSE LeadWeightedSum(b, r, p, m, h)

LeadQualification(overall) ==
    IF RLe(I(80), overall) THEN "excellent"
    ELSE IF RLe(I(65), overall) THEN "good"
    ELSE IF RLe(I(50), overall) THEN "average"
    ELSE IF RLe(I(35), overall) THEN "poor"
    ELSE "unsuitable"

\* property_data.get('property_id', 'unknown'); an AttributeError on None
PropertyId(property) ==
    IF property = None THEN Exc("AttributeError")
    ELSE IF Has(property, "property_id") THEN property["property_id"]
    ELSE "unknown"

\* The first exception raised by the five component computations, in the
\* order the try block runs them; <<>> when none raises.
FirstException(scores) ==
    LET bad == {i \in 1..Len(scores) : IsExc(scores[i])}
    IN  IF bad = {} THEN <<>>
        ELSE <<scores[CHOOSE i \in bad : \A j \in bad : i <= j].exc>>

\* the record calculate_overall_score returns when no component raised
LeadResult(property, reason, overall, b, r, p, m, h) ==
    [property_id |-> PropertyId(property),
     overall_score |-> Round(overall),
     qualification |-> LeadQualification(overall),
     disqualified |-> reason # NoReason,
     disqualification_reason |-> reason,
     component_scores |->
         [bill_score |-> Round(b), roof_score |-> Round(r),
          property_score |-> Round(p), metering_score |-> Round(m),
          homeowner_score |-> Round(h)]]

\* the try block of calculate_overall_score once the five component scores
\* are computed, and its except handler: the returned record, or Raised(..)
\* when the handler itself raises
OverallFrom(property, b, r, p, m, h, e, reason, minreq) ==
    IF e # <<>> THEN
        \* except Exception as e: builds the error record
        IF property = None THEN Raised("AttributeError")
        ELSE [property_id |-> PropertyId(property), overall_score |-> 0,
              qualification |-> "error", error |-> e[1]]
    ELSE LeadResult(property, reason,
                    LeadOverall(reason # NoReason, b, r, p, m, h),
                    b, r, p, m, h)

ScoresFrom(property, b, r, p, m, h, minreq) ==
    OverallFrom(property, b, r, p, m, h, FirstException(<<b, r, p, m, h>>),
                DisqualificationReason(b, r, minreq), minreq)

\* calculate_overall_score.  The weights echo and the timestamp are left out
\* of the record.
calculate_overall_score(property, utility, roof, owner, minreq) ==
    ScoresFrom(property,
               calculate_bill_score(property, utility),
               calculate_roof_score(property, roof),
               calculate_property_score(property),
               calculate_net_metering_score(property, utility),
               calculate_homeowner_score(property, owner), minreq)

----------------------------------------------------------------------------
(* BillEstimator (src/bill_estimator.py), default configuration *)

BaseConsumption ==
    [small |-> 700, medium |-> 1000, large |-> 1300, very_large |-> 1600]

\* monthly_factors, in hundredths
MonthlyFactors == <<85, 80, 75, 80, 100, 130, 150, 150, 120, 90, 75, 85>>

\* the three-digit prefixes lo..hi as digit strings
Prefixes(lo, hi) ==
    {<<k \div 100, (k \div 10) % 10, k % 10>> : k \in lo..hi}

\* the default climate_zones, in the iteration order of the dict
ClimateZones ==
    <<[zone |-> "north", base_factor |-> Rat(100, 100),
       zip_prefixes |-> Prefixes(750, 767)],
      [zone |-> "central", base_factor |-> Rat(105, 100),
       zip_prefixes |-> Prefixes(768, 785)],
      [zone |-> "south", base_factor |-> Rat(115, 100),
       zip_prefixes |-> Prefixes(786, 799)]>>

\* str.startswith on digit strings
StartsWith(z, prefix) ==
    Len(z) >= Len(prefix) /\ SubSeq(z, 1, Len(prefix)) = prefix

\* dict.get(k, default)
Get(d, k, default) == IF Has(d, k) THEN d[k] ELSE default

\* variant: the tier's base consumption, without the fine-tuning
BaseUsage_TierOnly(square_footage) ==
    I(BaseConsumption[IF square_footage < 1200 THEN "small"
                      ELSE IF square_footage < 2500 THEN "medium"
                      ELSE IF square_footage < 3500 THEN "large"
                      ELSE "very_large"])

\* variant: each tier's line starts from no usage at its lower anchor
BaseUsage_FromZero(square_footage) ==
    LET tier == IF square_footage < 1200 THEN "small"
                ELSE IF square_footage < 2500 THEN "medium"
                ELSE IF square_footage < 3500 THEN "large"
                ELSE "very_large"
        bounds == CASE tier = "small" -> <<800, 1200>>
                    [] tier = "medium" -> <<1200, 2500>>
                    [] tier = "large" -> <<2500, 3500>>
                    [] OTHER -> <<3500, 5000>>
        base == BaseConsumption[tier]
        min_usage == I(0)
        max_usage == CASE tier = "small" -> I(base)
                       [] tier = "very_large" -> RMul(I(base), Rat(13, 10))
                       [] OTHER -> RMul(I(base), Rat(12, 10))
        sqft_factor == Rat(square_footage - bounds[1], bounds[2] - bounds[1])
    IN  IF square_footage > 0
        THEN RAdd(min_usage, RMul(sqft_factor, RSub(max_usage, min_usage)))
        ELSE I(base)

\* base usage (kWh/month) of a numeric square footage
BaseUsage(square_footage) ==
    LET tier == IF square_footage < 1200 THEN "small"
                ELSE IF square_footage < 2500 THEN "medium"
                ELSE IF square_footage < 3500 THEN "large"
                ELSE "very_large"
        bounds == CASE tier = "small" -> <<800, 1200>>
                    [] tier = "medium" -> <<1200, 2500>>
                    [] tier = "large" -> <<2500, 3500>>
                    [] OTHER -> <<3500, 5000>>
        base == BaseConsumption[tier]
        min_usage == RMul(I(base), Rat(8, 10))
        max_usage == CASE tier = "small" -> I(base)
                       [] tier = "very_large" -> RMul(I(base), Rat(13, 10))
                       [] OTHER -> RMul(I(base), Rat(12, 10))
        sqft_factor == Rat(square_footage - bounds[1], bounds[2] - bounds[1])
    IN  IF square_footage > 0
        THEN RAdd(min_usage, RMul(sqft_factor, RSub(max_usage, min_usage)))
        ELSE I(base)

AgeFactor(year_built, year) ==
    IF year_built > 0 THEN
        LET age == year - year_built
        IN  IF age <= 5 THEN Rat(85, 100)
            ELSE IF age <= 15 THEN Rat(90, 100)
            ELSE IF age <= 30 THEN Rat(100, 100)
            ELSE IF age <= 50 THEN Rat(110, 100)
            ELSE Rat(120, 100)
    ELSE I(1)

BedroomFactor(bedrooms) ==
    IF bedrooms <= 1 THEN Rat(70, 100)
    ELSE IF bedrooms = 2 THEN Rat(85, 100)
    ELSE IF bedrooms = 3 THEN I(1)
    ELSE IF bedrooms = 4 THEN Rat(115, 100)
    ELSE Rat(125, 100)

\* The zone loop: every zone is visited in order (the break leaves only the
\* inner loop over prefixes), so the factor of the last matching zone stays.
RECURSIVE ClimateLoop(_, _, _)
ClimateLoop(zip, i, climate_factor) ==
    IF i > Len(climate_zones) THEN climate_factor
    ELSE ClimateLoop(zip, i + 1,
             IF \E prefix \in climate_zones[i].zip_prefixes :
                    StartsWith(zip, prefix)
             THEN climate_zones[i].base_factor
             ELSE climate_factor)

ClimateFactor(zip) == ClimateLoop(zip, 1, I(1))

\* variant: the factors are looked up from month 0
MonthFactor_ZeroBased(mon) ==
    IF mon # <<>> /\ 1 <= mon[1] /\ mon[1] <= 12
    THEN Rat(MonthlyFactors[IF mon[1] = 1 THEN 12 ELSE mon[1] - 1], 100)
    ELSE I(1)

MonthFactor(mon) ==
    IF mon # <<>> /\ 1 <= mon[1] /\ mon[1] <= 12
    THEN Rat(MonthlyFactors[mon[1]], 100)
    ELSE I(1)

\* the body of the try block: the bill, or the exception it raises
EstimateBody(property, utility, mon, year) ==
    IF property = None THEN Exc("AttributeError")
    ELSE
        LET square_footage == Get(property, "square_footage", Num(0))
            year_built == Get(property, "year_built", 2000)
            bedrooms == Get(property, "bedrooms", 3)
            zip_code == Get(property, "zip_code", Str(<<>>))
            rate == IF Truthy(utility) /\ Has(utility, "residential")
                    THEN utility["residential"] ELSE Rat(12, 100)
        IN  IF ~IsNum(square_footage) THEN Exc("TypeError")
            ELSE IF ~IsStr(zip_code) THEN Exc("AttributeError")
            ELSE
                LET estimated_usage ==
                        RMul(RMul(RMul(RMul(BaseUsage(square_footage.num),
                                            AgeFactor(year_built, year)),
                                       BedroomFactor(bedrooms)),
                                  ClimateFactor(zip_code.str)),
                             MonthFactor(mon))
                IN  RMul(estimated_usage, rate)

\* a handler that lets the exception through
CatchToZero_Reraise(body) == IF IsExc(body) THEN Raised(body.exc) ELSE body

\* except Exception: return 0
CatchToZero(body) == IF IsExc(body) THEN I(0) ELSE body

estimate_monthly_bill(property, utility, mon, year) ==
    CatchToZero(EstimateBody(property, utility, mon, year))

\* The zone loop of estimate_bill_by_zip_code: as in estimate_monthly_bill
\* every zone is visited, so the name of the last matching zone stays.
RECURSIVE RegionLoop(_, _, _)
RegionLoop(zip, i, region) ==
    IF i > Len(climate_zones) THEN region
    ELSE RegionLoop(zip, i + 1,
             IF \E prefix \in climate_zones[i].zip_prefixes :
                    StartsWith(zip, prefix)
             THEN climate_zones[i].zone
             ELSE region)

\* region_map.get(region, 'central')
UtilityRegion(region) ==
    IF region \in {"north", "central", "south"} THEN region ELSE "central"

\* utility_rates of the regions a climate zone maps to
UtilityRates ==
    [north |-> Rat(115, 1000), central |-> Rat(125, 1000),
     south |-> Rat(135, 1000)]

\* f"{utility_region.capitalize()} Texas Utility"
ProviderName(utility_region) ==
    CASE utility_region = "north" -> "North Texas Utility"
      [] utility_region = "south" -> "South Texas Utility"
      [] OTHER -> "Central Texas Utility"

\* the utility record estimate_bill_by_zip_code builds for a region
RegionUtility(utility_region) ==
    [residential |-> UtilityRates[utility_region],
     utility_provider |-> ProviderName(utility_region)]

\* zip_code.startswith is called outside any try: a zip_code that is not a
\* string raises AttributeError to the caller
estimate_bill_by_zip_code(zip_code, square_footage, year_built, bedrooms, year) ==
    IF ~IsStr(zip_code) THEN Raised("AttributeError")
    ELSE estimate_monthly_bill(
             [zip_code |-> zip_code, square_footage |-> square_footage,
              year_built |-> year_built, bedrooms |-> bedrooms],
             RegionUtility(UtilityRegion(RegionLoop(zip_code.str, 1, "central"))),
             <<>>, year)

\* sum(b[1..12]) of the unrounded bills
AnnualTotal(b) ==
    RAdd(RAdd(RAdd(RAdd(b[1], b[2]), RAdd(b[3], b[4])),
              RAdd(RAdd(b[5], b[6]), RAdd(b[7], b[8]))),
         RAdd(RAdd(b[9], b[10]), RAdd(b[11], b[12])))

\* variant: the total is reported in whole dollars
AnnualProfile_TotalInDollars(bills, annual_total) ==
    [monthly |-> [m \in 1..12 |-> Round2(bills[m])],
     annual_total |-> I(Round(annual_total)),
     monthly_average |-> Round2(RDiv(annual_total, I(12)))]

\* the record estimate_annual_bill_profile builds from the twelve bills and
\* their total
AnnualProfile(bills, annual_total) ==
    [monthly |-> [m \in 1..12 |-> Round2(bills[m])],
     annual_total |-> Round2(annual_total),
     monthly_average |-> Round2(RDiv(annual_total, I(12)))]

BillsOfYear(property, utility, year) ==
    [m \in 1..12 |-> estimate_monthly_bill(property, utility, <<m>>, year)]

\* the loop over range(1, 13): annual_total is added up from the unrounded
\* bills
AnnualOf(bills) == AnnualProfile(bills, AnnualTotal(bills))

estimate_annual_bill_profile(property, utility, year) ==
    AnnualOf(BillsOfYear(property, utility, year))

\* analyze_bill_factors, as far as the service's summary reads it: the
\* unperturbed bill
\* d[k] = v on a dict
Put(d, k, v) == [x \in DOMAIN d \cup {k} |-> IF x = k THEN v ELSE d[x]]

\* min(datetime.now().year - 5, year_built + 20)
NewerYear(year_built, year) ==
    IF year - 5 < year_built + 20 THEN year - 5 ELSE year_built + 20

\* max(1900, year_built - 20)
OlderYear(year_built) == IF year_built - 20 < 1900 THEN 1900 ELSE year_built - 20

\* factors['age']: the bills of the same home built twenty years later and
\* twenty years earlier
AgeFactors(property, utility, year) ==
    [current |-> property["year_built"],
     newer |-> NewerYear(property["year_built"], year),
     newer_bill |->
         estimate_monthly_bill(
             Put(property, "year_built", NewerYear(property["year_built"], year)),
             utility, <<>>, year),
     older |-> OlderYear(property["year_built"]),
     older_bill |->
         estimate_monthly_bill(
             Put(property, "year_built", OlderYear(property["year_built"])),
             utility, <<>>, year)]

\* the factors of the analysis: of the four, the model keeps the age factor
BillFactors(property, utility, year) ==
    IF Has(property, "year_built")
    THEN [age |-> AgeFactors(property, utility, year)] ELSE EmptyDict

analyze_bill_factors(property, utility, year) ==
    IF property = None THEN [error |-> "TypeError"]  \* 'square_footage' in None
    ELSE IF Has(property, "square_footage") /\ ~IsNum(property["square_footage"])
    THEN [error |-> "TypeError"]   \* square_footage * 0.8 inside the try
    ELSE [base_bill |-> estimate_monthly_bill(property, utility, <<>>, year),
          factors |-> BillFactors(property, utility, year)]

----------------------------------------------------------------------------
(* LeadScoringService (src/lead_scoring_service.py) *)


\* RoofAnalyzer.estimate_system_size: 17.5 sq ft and 0.3 kW per panel
estimate_system_size(roof, annual_usage) ==
    LET usable_area == Get(roof, "usable_roof_area", 0)
        num_panels == (usable_area * 10) \div 175
    IN  [recommended_system_size |-> Rat(num_panels * 3, 10)]

\* utility_data['annual_bill_profile'] = estimate_annual_bill_profile(..)
WithProfile(property, u1, year) ==
    Put(u1, "annual_bill_profile",
        estimate_annual_bill_profile(property, u1, year))

\* Step 1 of score_lead when the estimate is missing
WithBill(property, u0, year) ==
    WithProfile(property,
                Put(u0, "estimated_monthly_bill",
                    estimate_monthly_bill(property, u0, <<>>, year)),
                year)

\* Step 1 of score_lead on the dict u0 (the caller's, or a fresh {}): the
\* utility dict the rest of the call works on
EstimateInto(property, u0, year) ==
    IF ~Has(u0, "estimated_monthly_bill") /\ Truthy(property)
    THEN WithBill(property, u0, year)
    ELSE u0

WithEstimate(property, utility, year) ==
    EstimateInto(property, IF ~Truthy(utility) THEN EmptyDict ELSE utility,
                 year)

\* Step 2 of score_lead: None, the roof analysis, or the exception raised
RoofStep(roof, u) ==
    IF ~Truthy(roof) THEN None
    ELSE
        LET rate == Get(u, "residential", Rat(12, 100))
            divides == Truthy(u) /\ Has(u, "annual_bill_profile")
        IN  IF divides /\ rate.n = 0 THEN Exc("ZeroDivisionError")
            ELSE
                LET annual_usage ==
                        IF divides
                        THEN <<RDiv(u["annual_bill_profile"].annual_total, rate)>>
                        ELSE <<>>
                IN  Put(analyze_roof_suitability(roof), "system_size_estimate",
                        estimate_system_size(roof, annual_usage))

\* what the except clause of score_lead returns (timestamp left out)
ServiceError(e) == [error |-> e]

generate_summary(lead_score) ==
    [overall_score |-> lead_score.overall_score,
     qualification |-> lead_score.qualification]

\* what score_lead returns, from the results of its steps
ServiceResult(property, u, roof, owner, roof_analysis, lead_score, bill) ==
    IF IsExc(roof_analysis) THEN ServiceError(roof_analysis.exc)
    ELSE [lead_score |-> lead_score,
          roof_analysis |-> roof_analysis,
          bill_analysis |-> bill,
          data_completeness |->
              [property_data |-> Truthy(property), utility_data |-> Truthy(u),
               roof_data |-> Truthy(roof), owner_data |-> Truthy(owner)],
          summary |-> generate_summary(lead_score)]

\* Steps 2 to 5 of score_lead on the utility dict u that Step 1 left
ScoreWith(property, utility, roof, owner, minreq, year, u) ==
    [utility |-> IF Truthy(utility) THEN u ELSE utility,
     ret |-> ServiceResult(property, u, roof, owner,
                 RoofStep(roof, u),
                 calculate_overall_score(property, u, roof, owner, minreq),
                 IF Truthy(property)
                     THEN analyze_bill_factors(property, u, year)
                     ELSE None)]

\* score_lead: ret is the returned record or Raised(..); utility is the
\* caller's utility object after the call (the call writes the estimate and
\* the annual profile into a non-empty dict it was given).  Step 1 is bound
\* through a singleton set so that it is evaluated before the later steps.
score_lead(property, utility, roof, owner, minreq, year) ==
    IF property = None THEN
        \* property_data.get(..) in the log line, outside the try block
        [ret |-> Raised("AttributeError"), utility |-> utility]
    ELSE
        CHOOSE call \in
            {ScoreWith(property, utility, roof, owner, minreq, year, u) :
                 u \in {WithEstimate(property, utility, year)}} : TRUE

\* numpy statistics over a list of scores: a TypeError unless every element
\* is a number.  std_dev and the percentiles are not rational and are left
\* out of the record.
RECURSIVE SeqSum(_)
SeqSum(q) == IF q = <<>> THEN 0 ELSE Head(q).num + SeqSum(Tail(q))

analyze_lead_distribution(scores) ==
    IF scores = <<>> THEN [count |-> 0, message |-> "No scores to analyze"]
    ELSE IF \E i \in 1..Len(scores) : ~IsNum(scores[i]) THEN Exc("TypeError")
    ELSE [count |-> Len(scores),
          mean |-> Rat(SeqSum(scores), Len(scores)),
          min |-> CHOOSE v \in {scores[i].num : i \in 1..Len(scores)} :
                      \A j \in 1..Len(scores) : v <= scores[j].num,
          max |-> CHOOSE v \in {scores[i].num : i \in 1..Len(scores)} :
                      \A j \in 1..Len(scores) : v >= scores[j].num]

\* lead.get('utility_data') through the heap of utility objects
Deref(heap, ref) == IF ref = 0 THEN None ELSE heap[ref]

\* results.append(result) for a lead's call; the lead's utility object is as
\* the call left it
BatchAppend(lead, st, call) ==
    [results |-> Append(st.results, call.ret),
     heap |-> IF lead.utility_data = 0 THEN st.heap
              ELSE [st.heap EXCEPT ![lead.utility_data] = call.utility]]

\* one iteration of the loop of batch_score_leads: a lead without property
\* data is skipped
BatchStep(lead, st, minreq, year) ==
    IF ~Truthy(lead.property_data) THEN st
    ELSE BatchAppend(lead, st,
             score_lead(lead.property_data, Deref(st.heap, lead.utility_data),
                        lead.roof_data, lead.owner_data, minreq, year))

\* the for loop of batch_score_leads from lead i on; st holds the results
\* appended so far and the utility objects as the calls so far left them
\* (each iteration is bound through a singleton set, so that it is evaluated
\* before the next one starts)
RECURSIVE BatchLoop(_, _, _, _, _)
BatchLoop(leads, i, st, minreq, year) ==
    IF i > Len(leads) THEN st
    ELSE CHOOSE out \in {BatchLoop(leads, i + 1, next, minreq, year) :
                             next \in {BatchStep(leads[i], st, minreq, year)}} :
             TRUE

\* the list handed to analyze_lead_distribution:
\* [r['lead_score'] for r in results if 'lead_score' in r]
RECURSIVE LeadScoresOf(_)
LeadScoresOf(results) ==
    IF results = <<>> THEN <<>>
    ELSE IF Has(Head(results), "lead_score")
        THEN <<Head(results)["lead_score"]>> \o LeadScoresOf(Tail(results))
    ELSE LeadScoresOf(Tail(results))

\* the return statement of batch_score_leads, or the exception the analysis
\* raised
BatchResult(loop, scores_analysis) ==
    [heap |-> loop.heap,
     results |-> loop.results,
     ret |-> IF IsExc(scores_analysis) THEN Raised(scores_analysis.exc)
             ELSE [results |-> loop.results, analysis |-> scores_analysis]]

BatchAnalysis(loop) ==
    BatchResult(loop, analyze_lead_distribution(LeadScoresOf(loop.results)))

\* batch_score_leads: ret is the returned record or Raised(..), heap the
\* utility objects after the call, results the list the loop built
batch_score_leads(leads, heap, minreq, year) ==
    BatchAnalysis(BatchLoop(leads, 1, [results |-> <<>>, heap |-> heap],
                            minreq, year))

----------------------------------------------------------------------------
(* Inputs *)

AzimuthSteps == 4
MaxLeads == 2

\* a five-digit ZIP code as a digit string
Zip(k) == <<k \div 10000, (k \div 1000) % 10, (k \div 100) % 10,
            (k \div 10) % 10, k % 10>>

Azimuths == {(k * 360) \div AzimuthSteps : k \in 0..AzimuthSteps}

\* roof records for RoofAnalyzer
RoofInputs ==
    {Field("azimuth", az) @@ Field("primary_orientation", po)
       @@ Field("usable_roof_area", ua) @@ Field("total_roof_area", ta)
       @@ Field("shading_percentage", sh) @@ Field("pitch", pi)
       @@ Field("roof_condition", rc) @@ Field("roof_age", ra) :
     az \in Opt(Azimuths), po \in Opt({"S", "X"}),
     ua \in Opt({399, 400, 600, 1000, 1200}), ta \in Opt({600, 1500}),
     sh \in Opt({0, 5, 39, 40, 41}), pi \in Opt({25, 60}),
     rc \in Opt({"Good", "very poor", "weird"}), ra \in Opt({12})}

GoodRoof ==
    [usable_roof_area |-> 1000, primary_orientation |-> "S",
     shading_percentage |-> 5, pitch |-> 25, roof_condition |-> "good"]

TypicalProperty ==
    [property_id |-> "p1", square_footage |-> Num(2000), year_built |-> 2015,
     bedrooms |-> 3, zip_code |-> Str(Zip(78701)), is_owner_occupied |-> TRUE,
     property_type |-> "Single-Family", property_value |-> 350000,
     has_solar_permit |-> FALSE]

SmallProperty ==
    [property_id |-> "p2", square_footage |-> Num(1000), year_built |-> 1990,
     bedrooms |-> 2, zip_code |-> Str(Zip(75001)), is_owner_occupied |-> TRUE]

FullOwner ==
    [phone |-> "555", email |-> "a@b", do_not_call |-> FALSE,
     ownership_years |-> 6]

\* records for LeadScoringEngine, one record kind varied at a time
LeadProperties ==
    {Field("square_footage", sf) @@ Field("is_owner_occupied", oo)
       @@ Field("property_type", pt) @@ Field("property_value", pv)
       @@ Field("has_solar_permit", sp) :
     sf \in Opt({Num(1000), Num(1500), Num(2600), None}), oo \in Opt(BOOLEAN),
     pt \in Opt({"Single-Family", "Multi-Family", "Condo"}),
     pv \in Opt({50000, 150000, 250000, 400000, 600000}), sp \in Opt(BOOLEAN)}
    \cup {None}

LeadUtilities ==
    {Field("estimated_monthly_bill", mb) @@ Field("residential", rt)
       @@ Field("net_metering_available", nm) :
     mb \in Opt({I(0), I(119), I(120), I(160), I(200), I(250), I(300), I(500)}),
     rt \in Opt({I(0), Rat(7, 100), Rat(8, 100), Rat(10, 100), Rat(12, 100),
                 Rat(14, 100)}),
     nm \in Opt(BOOLEAN)}
    \cup {None}

LeadRoofs ==
    {Field("primary_orientation", po) @@ Field("usable_roof_area", ua)
       @@ Field("shading_percentage", sh) @@ Field("roof_condition", rc)
       @@ Field("overall_score", os) :
     po \in Opt({"S", "N", "X"}), ua \in Opt({399, 400, 1000, 1200}),
     sh \in Opt({0, 40, 41}), rc \in Opt({"Good", "weird"}),
     os \in Opt({0, 29, 30, 100})}
    \cup {None}

LeadOwners ==
    {Field("phone", ph) @@ Field("email", em) @@ Field("do_not_call", dn)
       @@ Field("ownership_years", oy) :
     ph \in Opt({"", "555"}), em \in Opt({"", "a@b"}), dn \in Opt(BOOLEAN),
     oy \in Opt({0, 1, 3, 5})}
    \cup {None}

FewProperties == {None, TypicalProperty, [square_footage |-> None]}
FewUtilities ==
    {None, [estimated_monthly_bill |-> I(119)],
     [estimated_monthly_bill |-> I(250), residential |-> Rat(12, 100),
      net_metering_available |-> TRUE]}
FewRoofs == {None, [overall_score |-> 29], GoodRoof}
FewOwners == {None, FullOwner}

\* min_requirements: the default, and an override under which leads qualify
LeadConfigs ==
    {DefaultMinRequirements, [monthly_bill |-> 50, roof_score |-> 30]}

\* a 2000 square feet home of 2015 with three bedrooms in Austin
AustinHome ==
    [square_footage |-> Num(2000), year_built |-> 2015, bedrooms |-> 3,
     zip_code |-> Str(Zip(78701))]

\* records for BillEstimator
BillProperties ==
    {Field("square_footage", sf) @@ Field("year_built", yb)
       @@ Field("bedrooms", br) @@ Field("zip_code", zc) :
     sf \in Opt({Num(0), Num(500), Num(1200), Num(2000), Num(2500),
                 Num(3500), Num(6000), None}),
     yb \in Opt({0, 1960, 2015}), br \in Opt({1, 5}),
     zc \in Opt({Str(Zip(75001)), Str(Zip(77001)), Str(Zip(78701)),
                 Str(<<>>), Num(78701)})}
    \cup {None} \cup {AustinHome}

BillUtilities ==
    {None, [residential |-> Rat(12, 100)], [residential |-> I(0)],
     [residential |-> Rat(15, 100)]}

Months == Opt({7, 13})
Years == {2025, 2026}

\* records for LeadScoringService
ServiceProperties ==
    {None, EmptyDict, TypicalProperty, SmallProperty,
     [square_footage |-> None], [square_footage |-> Num(3200),
                                 zip_code |-> Num(78701)]}
ServiceUtilities ==
    {None, EmptyDict, [residential |-> Rat(12, 100)], [residential |-> I(0)],
     [residential |-> Rat(14, 100), net_metering_available |-> TRUE],
     [estimated_monthly_bill |-> I(150), residential |-> Rat(12, 100)]}
ServiceRoofs ==
    {None, GoodRoof, [usable_roof_area |-> 1000, shading_percentage |-> 40],
     [usable_roof_area |-> 399], [overall_score |-> 85]}

\* the utility objects a batch's leads refer to
BatchHeap == <<[residential |-> Rat(12, 100)], [residential |-> I(0)]>>

\* the leads of a batch; utility_data is 0 for a lead without utility data,
\* else the index of its utility object
BatchLeads ==
    {[property_data |-> None, utility_data |-> 1, roof_data |-> None,
      owner_data |-> None],
     [property_data |-> TypicalProperty, utility_data |-> 1,
      roof_data |-> None, owner_data |-> None],
     [property_data |-> SmallProperty, utility_data |-> 1,
      roof_data |-> None, owner_data |-> FullOwner],
     [property_data |-> TypicalProperty, utility_data |-> 2,
      roof_data |-> GoodRoof, owner_data |-> None],
     [property_data |-> TypicalProperty, utility_data |-> 0,
      roof_data |-> GoodRoof, owner_data |-> FullOwner]}

Batches == UNION {[1..n -> BatchLeads] : n \in 0..MaxLeads}

----------------------------------------------------------------------------
(* Operations: each public method called on the caller's current records *)

EstimateMonthlyBill ==
    /\ op' = "estimate_monthly_bill"
    /\ result' = estimate_monthly_bill(property_data, utility_data, month,
                                       current_year)
    /\ UNCHANGED <<min_requirements, property_data, utility_data, roof_data,
                   owner_data, month, current_year, leads_data, utility_heap,
                   batch_results,
                   climate_zones, weights, database>>

AnalyzeBillFactors ==
    /\ op' = "analyze_bill_factors"
    /\ result' = analyze_bill_factors(property_data, utility_data, current_year)
    /\ UNCHANGED <<min_requirements, property_data, utility_data, roof_data,
                   owner_data, month, current_year, leads_data, utility_heap,
                   batch_results, climate_zones, weights, database>>

EstimateAnnualBillProfile ==
    /\ op' = "estimate_annual_bill_profile"
    /\ result' = estimate_annual_bill_profile(property_data, utility_data,
                                              current_year)
    /\ UNCHANGED <<min_requirements, property_data, utility_data, roof_data,
                   owner_data, month, current_year, leads_data, utility_heap,
                   batch_results,
                   climate_zones, weights, database>>

AnalyzeRoofSuitability ==
    /\ op' = "analyze_roof_suitability"
    /\ result' = analyze_roof_suitability(roof_data)
    /\ UNCHANGED <<min_requirements, property_data, utility_data, roof_data,
                   owner_data, month, current_year, leads_data, utility_heap,
                   batch_results,
                   climate_zones, weights, database>>

CalculateOverallScore ==
    /\ op' = "calculate_overall_score"
    /\ result' = calculate_overall_score(property_data, utility_data, roof_data,
                                         owner_data, min_requirements)
    /\ UNCHANGED <<min_requirements, property_data, utility_data, roof_data,
                   owner_data, month, current_year, leads_data, utility_heap,
                   batch_results,
                   climate_zones, weights, database>>

ScoreLead ==
    \E call \in {score_lead(property_data, utility_data, roof_data,
                            owner_data, min_requirements, current_year)} :
        /\ op' = "score_lead"
        /\ result' = call.ret
        /\ utility_data' = call.utility
        /\ UNCHANGED <<min_requirements, property_data, roof_data, owner_data,
                       month, current_year, leads_data, utility_heap,
                       batch_results,
                   climate_zones, weights, database>>

BatchScoreLeads ==
    \E call \in {batch_score_leads(leads_data, utility_heap,
                                   min_requirements, current_year)} :
        /\ op' = "batch_score_leads"
        /\ result' = call.ret
        /\ utility_heap' = call.heap
        /\ batch_results' = call.results
        /\ UNCHANGED <<min_requirements, property_data, utility_data,
                       roof_data, owner_data, month, current_year, leads_data,
                       climate_zones, weights, database>>

\* nothing has been called yet
----------------------------------------------------------------------------
(* Database *)

\* a database whose tables were created and hold no rows; calls is the
\* record of the insert_* calls made, each with the property it was for
EmptyDatabase ==
    [Property |-> <<>>, Homeowner |-> <<>>, Roof |-> <<>>, Utility |-> <<>>,
     Lead |-> <<>>, calls |-> <<>>]

\* str(uuid.uuid4()): an id no other row of the table has
Uuid(db, table) == [uuid |-> <<table, Len(db[table]) + 1>>]

\* insert_property, insert_homeowner, insert_roof, insert_utility and
\* insert_lead: the id is written into the caller's dict, last_updated is
\* defaulted, the row is inserted; an exception from the cursor (executed
\* FALSE) is caught, and the method returns None with no row inserted
Insert(db, table, key, data, executed, now) ==
    LET id == Uuid(db, table)
        keyed == Put(data, key, id)
        row == IF Has(keyed, "last_updated") THEN keyed
               ELSE Put(keyed, "last_updated", now)
        call == [method |-> table, property_id |-> row["property_id"]]
    IN  [id |-> IF executed THEN id ELSE None,
         data |-> row,
         db |-> [db EXCEPT ![table] = IF executed THEN Append(@, row) ELSE @,
                           !.calls = Append(@, call)]]

\* insert_lead also defaults created_date
InsertLead(db, lead_data, executed, now) ==
    Insert(db, "Lead", "lead_id",
           IF Has(lead_data, "created_date") THEN lead_data
           ELSE Put(lead_data, "created_date", now), executed, now)

NoCall ==
    /\ op = "none"
    /\ result = None
    /\ batch_results = <<>>

----------------------------------------------------------------------------
(* RoofAnalyzer alone *)

InitRoof ==
    /\ roof_data \in RoofInputs \cup {GoodRoof}
    /\ min_requirements = DefaultMinRequirements
    /\ property_data = None /\ utility_data = None /\ owner_data = None
    /\ month = <<>> /\ current_year = 2025
    /\ leads_data = <<>> /\ utility_heap = <<>>
    /\ climate_zones = ClimateZones /\ weights = DefaultWeights
    /\ database = EmptyDatabase
    /\ NoCall

NextRoof == AnalyzeRoofSuitability

SpecRoof == InitRoof /\ [][NextRoof]_vars

(* LeadScoringEngine alone: one record kind takes all its values while the *)
(* others take a few                                                       *)

InitLead ==
    /\ \/ /\ property_data \in LeadProperties /\ utility_data \in FewUtilities
          /\ roof_data \in FewRoofs /\ owner_data \in FewOwners
       \/ /\ property_data \in FewProperties /\ utility_data \in LeadUtilities
          /\ roof_data \in FewRoofs /\ owner_data \in FewOwners
       \/ /\ property_data \in FewProperties /\ utility_data \in FewUtilities
          /\ roof_data \in LeadRoofs /\ owner_data \in FewOwners
       \/ /\ property_data \in FewProperties /\ utility_data \in FewUtilities
          /\ roof_data \in FewRoofs /\ owner_data \in LeadOwners
    /\ min_requirements \in LeadConfigs
    /\ month = <<>> /\ current_year = 2025
    /\ leads_data = <<>> /\ utility_heap = <<>>
    /\ climate_zones = ClimateZones /\ weights = DefaultWeights
    /\ database = EmptyDatabase
    /\ NoCall

NextLead == CalculateOverallScore

SpecLead == InitLead /\ [][NextLead]_vars

(* BillEstimator alone *)

InitBill ==
    /\ property_data \in BillProperties
    /\ utility_data \in BillUtilities
    /\ month \in Months /\ current_year \in Years
    /\ min_requirements = DefaultMinRequirements
    /\ roof_data = None /\ owner_data = None
    /\ leads_data = <<>> /\ utility_heap = <<>>
    /\ climate_zones = ClimateZones /\ weights = DefaultWeights
    /\ database = EmptyDatabase
    /\ NoCall

NextBill ==
    EstimateMonthlyBill \/ EstimateAnnualBillProfile \/ AnalyzeBillFactors

SpecBill == InitBill /\ [][NextBill]_vars

(* The service and the engines behind it *)

Init ==
    /\ \/ /\ property_data \in ServiceProperties
          /\ utility_data \in ServiceUtilities
          /\ roof_data \in ServiceRoofs /\ owner_data \in FewOwners
          /\ leads_data = <<>> /\ utility_heap = <<>>
       \/ /\ property_data = None /\ utility_data = None
          /\ roof_data = None /\ owner_data = None
          /\ leads_data \in Batches /\ utility_heap = BatchHeap
    /\ min_requirements \in LeadConfigs
    /\ month = <<>> /\ current_year = 2025
    /\ climate_zones = ClimateZones /\ weights = DefaultWeights
    /\ database = EmptyDatabase
    /\ NoCall

Next ==
    \/ EstimateMonthlyBill
    \/ AnalyzeRoofSuitability
    \/ CalculateOverallScore
    \/ ScoreLead
    \/ BatchScoreLeads

Spec == Init /\ [][Next]_vars

(* Both scoring engines, each on its own inputs *)

InitScores == InitRoof \/ InitLead

NextScores == AnalyzeRoofSuitability \/ CalculateOverallScore

SpecScores == InitScores /\ [][NextScores]_vars

----------------------------------------------------------------------------
(* Properties of LeadScoringEngine.calculate_overall_score *)

\* the last call was calculate_overall_score and none of its steps raised
LeadScored ==
    /\ op = "calculate_overall_score"
    /\ Has(result, "disqualified")

\* the monthly bill that call scored, and its five unrounded component scores
LeadBill == LeadMonthlyBill(property_data, utility_data)
LeadBillScore == calculate_bill_score(property_data, utility_data)
LeadRoofScore == calculate_roof_score(property_data, roof_data)
LeadPropertyScore == calculate_property_score(property_data)
LeadMeteringScore == calculate_net_metering_score(property_data, utility_data)
LeadHomeownerScore == calculate_homeowner_score(property_data, owner_data)

\* C1: with the default minimum requirements, a lead whose monthly bill is at
\* least $120 and whose roof score is at least 30 is not disqualified, and its
\* overall_score is the rounded weighted sum of the five component scores.
C1_QualifiesAtDefaultMinima ==
    (/\ LeadScored
     /\ min_requirements = DefaultMinRequirements
     /\ RLe(I(120), LeadBill)
     /\ RLe(I(30), LeadRoofScore))
    => /\ ~result.disqualified
       /\ result.overall_score =
              Round(LeadWeightedSum(LeadBillScore, LeadRoofScore,
                                    LeadPropertyScore, LeadMeteringScore,
                                    LeadHomeownerScore))

\* C2: a lead whose monthly bill is below $120 gets overall_score 0, is
\* disqualified with a recorded reason and has qualification "unsuitable",
\* whatever its other records are (any records on which no step raises).
C2_LowBillDisqualified ==
    (/\ op = "calculate_overall_score"
     /\ property_data # None
     /\ ~IsExc(LeadBill)
     /\ RLt(LeadBill, I(120)))
    => /\ LeadScored
       /\ result.overall_score = 0
       /\ result.disqualified
       /\ result.disqualification_reason # NoReason
       /\ result.qualification = "unsuitable"

\* a bill of $119 with a good roof, a good property and a reachable owner
C2_Witness ==
    /\ LeadScored
    /\ LeadBill = I(119)
    /\ roof_data = GoodRoof
    /\ property_data = TypicalProperty
    /\ result.disqualification_reason = "Monthly bill below minimum threshold"
    /\ result.overall_score = 0

\* C3: in every non-error result, overall_score is 0 exactly when
\* disqualified is true.
C3_ZeroIffDisqualified ==
    LeadScored => (result.overall_score = 0 <=> result.disqualified)

\* a lead that is not disqualified and has a positive overall score
C3_Witness ==
    /\ LeadScored
    /\ ~result.disqualified
    /\ result.overall_score > 0

\* C7: calculate_overall_score never lets an exception reach its caller; when
\* a step raises, it returns overall_score 0 and qualification "error".
C7_NeverPropagates ==
    op = "calculate_overall_score"
    => /\ ~IsRaised(result)
       /\ ~Has(result, "disqualified")
              => /\ result.overall_score = 0
                 /\ result.qualification = "error"
                 /\ Has(result, "error")

----------------------------------------------------------------------------
(* Properties of RoofAnalyzer.analyze_roof_suitability *)

\* the last call was analyze_roof_suitability on a non-empty roof record
RoofAnalyzed ==
    /\ op = "analyze_roof_suitability"
    /\ Has(result, "component_scores")

\* C4: a roof whose usable_roof_area is below 400 has area score 0,
\* overall_score 0 and suitability "unsuitable", whatever its orientation,
\* shading, pitch and condition.
C4_SmallRoofUnsuitable ==
    (/\ RoofAnalyzed
     /\ Has(roof_data, "usable_roof_area")
     /\ roof_data["usable_roof_area"] < 400)
    => /\ result.component_scores.area = 0
       /\ result.overall_score = 0
       /\ result.suitability = "unsuitable"

\* 399 sq ft on a south-facing, unshaded roof in good condition
C4_Witness ==
    /\ RoofAnalyzed
    /\ Has(roof_data, "usable_roof_area") /\ roof_data["usable_roof_area"] = 399
    /\ Has(roof_data, "azimuth") /\ roof_data["azimuth"] = 180
    /\ Has(roof_data, "shading_percentage")
    /\ roof_data["shading_percentage"] = 0
    /\ result.component_scores.orientation = 100
    /\ result.overall_score = 0

\* C5: a roof with usable area of at least 400 and shading of at most 40
\* (40 included) is not disqualified: its overall_score is the rounded
\* weighted sum of its five component scores.
C5_ShadingUpToMaxNotDisqualified ==
    (/\ RoofAnalyzed
     /\ Has(roof_data, "usable_roof_area")
     /\ roof_data["usable_roof_area"] >= 400
     /\ Has(roof_data, "shading_percentage")
     /\ roof_data["shading_percentage"] <= 40)
    => /\ result.overall_score =
              Round(RoofWeightedSum(calculate_orientation_score(roof_data),
                                    calculate_area_score(roof_data),
                                    calculate_shading_score(roof_data),
                                    calculate_pitch_score(roof_data),
                                    calculate_condition_score(roof_data)))
       /\ result.overall_score # 0

----------------------------------------------------------------------------
(* Properties of both engines *)

\* the component scores the last call reported
ReportedScores ==
    IF RoofAnalyzed \/ LeadScored
        THEN {result.component_scores[k] : k \in DOMAIN result.component_scores}
    ELSE {}

\* C6: every component score reported by analyze_roof_suitability and by
\* calculate_overall_score lies between 0 and 100.
C6_ComponentScoresInRange ==
    \A v \in ReportedScores : 0 <= v /\ v <= 100

\* a lead with a $500 bill, whose bill score is at the top of the range
C6_Witness ==
    /\ LeadScored
    /\ LeadBill = I(500)
    /\ result.component_scores.bill_score = 100

----------------------------------------------------------------------------
(* Properties of BillEstimator.estimate_monthly_bill *)

\* C9: estimate_monthly_bill never raises; when a step of the estimate
\* raises, the value returned is 0.
C9_NeverRaises ==
    op = "estimate_monthly_bill"
    => /\ ~IsRaised(result)
       /\ IsExc(EstimateBody(property_data, utility_data, month, current_year))
              => result = I(0)

\* a record with a square footage and a zip_code that is not a string
C9_Witness ==
    /\ op = "estimate_monthly_bill"
    /\ property_data # None
    /\ Has(property_data, "square_footage")
    /\ IsNum(property_data["square_footage"])
    /\ IsExc(EstimateBody(property_data, utility_data, month, current_year))
    /\ result = I(0)

----------------------------------------------------------------------------
(* Properties of LeadScoringService *)

\* C8: score_lead never lets an exception reach its caller, and what it
\* returns carries a lead score with an overall score and a qualification.
C8_AlwaysCarriesLeadScore ==
    op = "score_lead"
    => /\ ~IsRaised(result)
       /\ Has(result, "lead_score")
       /\ Has(result["lead_score"], "overall_score")
       /\ Has(result["lead_score"], "qualification")

\* the leads of the batch that have property data
ScoredLeads == {i \in 1..Len(leads_data) : Truthy(leads_data[i].property_data)}

\* C10: on a batch with at least one lead that has property data,
\* batch_score_leads returns one result per such lead and the distribution
\* statistics of their overall scores.
C10_BatchReturnsStatistics ==
    (op = "batch_score_leads" /\ ScoredLeads # {})
    => /\ ~IsRaised(result)
       /\ Len(result.results) = Cardinality(ScoredLeads)
       /\ result.analysis.count = Cardinality(ScoredLeads)
       /\ Has(result.analysis, "mean")

\* the leads of the batch that have property data, in the order of the batch
ScoredSeq == SelectSeq(leads_data, LAMBDA lead : Truthy(lead.property_data))

\* what score_lead returns for a lead on its own, on the utility objects as
\* they are
AloneResult(lead) ==
    score_lead(lead.property_data, Deref(utility_heap, lead.utility_data),
               lead.roof_data, lead.owner_data, min_requirements,
               current_year).ret

\* C11: in a batch, the result appended for each lead is the result
\* score_lead gives for that lead alone, on the records as they were before
\* the batch call, also when two leads refer to the same utility object.
C11_BatchLeadsIndependent ==
    [][BatchScoreLeads
       => /\ Len(batch_results') = Len(ScoredSeq)
          /\ \A k \in 1..Len(ScoredSeq) :
                 batch_results'[k] = AloneResult(ScoredSeq[k])]_vars

\* C12: score_lead leaves the caller's property_data, utility_data,
\* roof_data and owner_data as they were before the call.
C12_InputsUnchanged ==
    [][ScoreLead
       => /\ property_data' = property_data
          /\ utility_data' = utility_data
          /\ roof_data' = roof_data
          /\ owner_data' = owner_data]_vars

\* C13: when score_lead is given roof data, the roof score of its lead score
\* is the overall_score of the roof analysis of the same call.
C13_LeadUsesRoofAnalysis ==
    (/\ op = "score_lead"
     /\ Truthy(roof_data)
     /\ Has(result, "lead_score")
     /\ Has(result["lead_score"], "component_scores"))
    => result["lead_score"].component_scores.roof_score
           = result["roof_analysis"].overall_score

----------------------------------------------------------------------------
(* The clock: datetime.now() as the results record it.  A reading is        *)
(* <<year, tick>>; a call takes one reading, its year is the year the bill  *)
(* estimate uses and the reading is the timestamp of the records it builds. *)

MaxTick == 1

Ticks == 0..MaxTick

\* variant: the scoring time is also written into the message
StampLead_AlsoInMessage(r, t) ==
    IF Has(r, "disqualified") THEN Put(Put(r, "timestamp", t), "message", t)
    ELSE r

\* 'timestamp': datetime.now().isoformat() of calculate_overall_score; the
\* error record of its except handler carries none
StampLead(r, t) == IF Has(r, "disqualified") THEN Put(r, "timestamp", t) ELSE r

\* 'timestamp' of analyze_roof_suitability; the record for missing roof data
\* carries none
StampRoof(r, t) ==
    IF Has(r, "component_scores") THEN Put(r, "timestamp", t) ELSE r

\* the timestamps in what score_lead returns: its own, and those of the
\* lead score and the roof analysis it embeds
StampService(r, t) ==
    IF IsRaised(r) THEN r
    ELSE IF Has(r, "error") THEN Put(r, "timestamp", t)
    ELSE Put([r EXCEPT !["lead_score"] = StampLead(@, t),
                       !["roof_analysis"] = StampRoof(@, t)],
             "timestamp", t)

\* a later reading of the clock
Later(t1, t2) == t2[1] > t1[1] \/ (t2[1] = t1[1] /\ t2[2] >= t1[2])

\* the years two successive calls can read: the first reads current_year,
\* the second the same year or the next
YearsRead == {current_year} \X ({current_year, current_year + 1} \cap Years)

\* the readings of two successive calls made in the years yy
TwoReadings(yy) ==
    {tt \in ({yy[1]} \X Ticks) \X ({yy[2]} \X Ticks) : Later(tt[1], tt[2])}

\* the two results with the clock readings they were made at
Twice(name, yy, r1, r2) ==
    \E tt \in TwoReadings(yy) :
        /\ op' = name
        /\ result' = [at |-> tt, first |-> r1[tt[1]], second |-> r2[tt[2]]]
        /\ current_year' = yy[2]

\* the same call made twice on the caller's records
TwiceEstimateMonthlyBill ==
    /\ \E yy \in YearsRead :
        \E b1 \in {estimate_monthly_bill(property_data, utility_data, month,
                                         yy[1])} :
        \E b2 \in {estimate_monthly_bill(property_data, utility_data, month,
                                         yy[2])} :
            Twice("twice_estimate_monthly_bill", yy,
                  [t \in {yy[1]} \X Ticks |-> b1],
                  [t \in {yy[2]} \X Ticks |-> b2])
    /\ UNCHANGED <<min_requirements, property_data, utility_data, roof_data,
                   owner_data, month, leads_data, utility_heap, batch_results,
                   climate_zones, weights, database>>

TwiceAnalyzeRoofSuitability ==
    /\ \E yy \in YearsRead :
        \E r \in {analyze_roof_suitability(roof_data)} :
            Twice("twice_analyze_roof_suitability", yy,
                  [t \in {yy[1]} \X Ticks |-> StampRoof(r, t)],
                  [t \in {yy[2]} \X Ticks |-> StampRoof(r, t)])
    /\ UNCHANGED <<min_requirements, property_data, utility_data, roof_data,
                   owner_data, month, leads_data, utility_heap, batch_results,
                   climate_zones, weights, database>>

TwiceCalculateOverallScore ==
    /\ \E yy \in YearsRead :
        \E r \in {calculate_overall_score(property_data, utility_data,
                                          roof_data, owner_data,
                                          min_requirements)} :
            Twice("twice_calculate_overall_score", yy,
                  [t \in {yy[1]} \X Ticks |-> StampLead(r, t)],
                  [t \in {yy[2]} \X Ticks |-> StampLead(r, t)])
    /\ UNCHANGED <<min_requirements, property_data, utility_data, roof_data,
                   owner_data, month, leads_data, utility_heap, batch_results,
                   climate_zones, weights, database>>

\* the second call is given the same objects as the first, so it works on
\* the utility dict as the first call left it
TwiceScoreLead ==
    /\ \E yy \in YearsRead :
        \E c1 \in {score_lead(property_data, utility_data, roof_data,
                              owner_data, min_requirements, yy[1])} :
        \E c2 \in {score_lead(property_data, c1.utility, roof_data,
                              owner_data, min_requirements, yy[2])} :
            /\ Twice("twice_score_lead", yy,
                     [t \in {yy[1]} \X Ticks |-> StampService(c1.ret, t)],
                     [t \in {yy[2]} \X Ticks |-> StampService(c2.ret, t)])
            /\ utility_data' = c2.utility
    /\ UNCHANGED <<min_requirements, property_data, roof_data, owner_data,
                   month, leads_data, utility_heap, batch_results,
                   climate_zones, weights, database>>

\* a home built five years before the first reading
RecentProperty ==
    [property_id |-> "p3", square_footage |-> Num(2000), year_built |-> 2020,
     zip_code |-> Str(Zip(78701))]

TwiceProperties ==
    {None, TypicalProperty, RecentProperty, [square_footage |-> None]}

TwiceUtilities ==
    {None, [residential |-> Rat(12, 100)],
     [estimated_monthly_bill |-> I(150), residential |-> Rat(12, 100)]}

InitTwice ==
    /\ property_data \in TwiceProperties
    /\ utility_data \in TwiceUtilities
    /\ roof_data \in {None, GoodRoof}
    /\ owner_data = FullOwner
    /\ min_requirements = DefaultMinRequirements
    /\ month \in Months /\ current_year = 2025
    /\ leads_data = <<>> /\ utility_heap = <<>>
    /\ climate_zones = ClimateZones /\ weights = DefaultWeights
    /\ database = EmptyDatabase
    /\ NoCall

NextTwice ==
    \/ TwiceEstimateMonthlyBill
    \/ TwiceAnalyzeRoofSuitability
    \/ TwiceCalculateOverallScore
    \/ TwiceScoreLead

SpecTwice == InitTwice /\ [][NextTwice]_vars

----------------------------------------------------------------------------
(* Repeated calls                                                           *)

TwiceOps ==
    {"twice_estimate_monthly_bill", "twice_analyze_roof_suitability",
     "twice_calculate_overall_score", "twice_score_lead"}

\* a result without its timestamp fields
Drop(d, k) == [x \in DOMAIN d \ {k} |-> d[x]]
Unstamped(r) ==
    LET top == Drop(r, "timestamp")
        a == IF Has(top, "lead_score")
             THEN [top EXCEPT !["lead_score"] = Drop(@, "timestamp")] ELSE top
    IN  IF Has(a, "roof_analysis")
        THEN [a EXCEPT !["roof_analysis"] = Drop(@, "timestamp")] ELSE a

\* the two calls read the clock in the same calendar year
SameYear == result.at[1][1] = result.at[2][1]

----------------------------------------------------------------------------
(* The shape of the bill score                                              *)

\* the straight line through (x0, y0) and (x1, y1), at x
Line(x0, y0, x1, y1, x) ==
    RAdd(I(y0), RDiv(RMul(RSub(x, I(x0)), I(y1 - y0)), I(x1 - x0)))
Between(x0, x, x1) == RLe(I(x0), x) /\ RLe(x, I(x1))

\* bills to compare the scored bill with
BillProbes == {I(b) : b \in {0, 119, 120, 121, 199, 200, 201, 299, 300, 301}}

\* a lead whose bill the engine could read and score
BillScored == LeadScored /\ ~IsExc(LeadBill)

\* C15: the bill score is 0 below $120, 50 at $120, 80 at $200 and 100 from
\* $300 up, lies on the straight line between these points on [120, 200] and
\* on [200, 300], both ends included, and never decreases as the bill grows.
C15_BillScorePiecewiseLinear ==
    BillScored =>
        /\ RLt(LeadBill, I(120)) => LeadBillScore = I(0)
        /\ Between(120, LeadBill, 200)
              => LeadBillScore = Line(120, 50, 200, 80, LeadBill)
        /\ Between(200, LeadBill, 300)
              => LeadBillScore = Line(200, 80, 300, 100, LeadBill)
        /\ RLe(I(300), LeadBill) => LeadBillScore = I(100)
        /\ \A b \in BillProbes :
              /\ RLe(b, LeadBill) => RLe(BillRamp(b), LeadBillScore)
              /\ RLe(LeadBill, b) => RLe(LeadBillScore, BillRamp(b))

\* a bill on the upper ramp, below the bill at the joint of the two ramps
C15_Witness ==
    /\ BillScored /\ LeadBill = I(250) /\ LeadBillScore = I(90)
    /\ result.component_scores.bill_score = 90

----------------------------------------------------------------------------
(* The bill as a function of the square footage                             *)

\* the square footages where the estimator changes tier
TierBoundaries == {1200, 2500, 3500}

\* estimate_monthly_bill returned the bill of a home of sf square feet
BillEstimated(sf) ==
    /\ op = "estimate_monthly_bill"
    /\ property_data # None
    /\ Has(property_data, "square_footage")
    /\ property_data["square_footage"] = Num(sf)

\* the bill of the same home with sf square feet, all else the same
BillAt(sf) ==
    estimate_monthly_bill(Put(property_data, "square_footage", Num(sf)),
                          utility_data, month, current_year)

\* C16: the bill has no jump at a tier boundary: at 1200, 2500 and 3500
\* square feet it is the value the line of the tier below arrives at.
C16_NoJumpAtTierBoundary ==
    \A sf \in TierBoundaries :
        BillEstimated(sf)
            => result = RSub(RMul(I(2), BillAt(sf - 1)), BillAt(sf - 2))


\* the size tier of a square footage
SizeTier(sf) ==
    IF sf < 1200 THEN "small" ELSE IF sf < 2500 THEN "medium"
    ELSE IF sf < 3500 THEN "large" ELSE "very_large"

\* square footages to compare the estimated home with
SqftProbes ==
    {1, 799, 800, 1199, 1200, 1201, 2499, 2500, 2501, 3499, 3500, 5000, 7000}

\* the rate the estimate uses is positive
PositiveRate ==
    (Truthy(utility_data) /\ Has(utility_data, "residential"))
        => RLt(I(0), utility_data["residential"])

\* the estimate of the record in hand does not fail
EstimateSucceeds ==
    ~IsExc(EstimateBody(property_data, utility_data, month, current_year))

\* C17: for two positive square footages a < b of the same size tier, with
\* the same year_built, bedrooms, zip_code and month and a positive rate, the
\* bill of a is less than the bill of b.
C17_IncreasingWithinTier ==
    \A a \in {500, 1200, 2000, 2500, 3500, 6000} :
        (BillEstimated(a) /\ PositiveRate /\ EstimateSucceeds)
            => \A b \in SqftProbes :
                   /\ (a < b /\ SizeTier(a) = SizeTier(b))
                          => RLt(result, BillAt(b))
                   /\ (b < a /\ SizeTier(a) = SizeTier(b))
                          => RLt(BillAt(b), result)

\* a medium-tier home in July, billed above a smaller and below a larger one
C17_Witness ==
    /\ BillEstimated(2000) /\ PositiveRate /\ EstimateSucceeds
    /\ month = <<7>>
    /\ RLt(BillAt(1201), result) /\ RLt(result, BillAt(2499))


\* a number, as opposed to an exception let through
IsNumber(r) == DOMAIN r = {"n", "d"} /\ r.d > 0

\* the record in hand has a non-negative square footage, the rate is not
\* negative and the month is absent or one of 1..12
BillInputsValid ==
    /\ property_data # None
    /\ IsNum(Get(property_data, "square_footage", Num(0)))
    /\ Get(property_data, "square_footage", Num(0)).num >= 0
    /\ (Truthy(utility_data) /\ Has(utility_data, "residential"))
          => RLe(I(0), utility_data["residential"])
    /\ month = <<>> \/ month[1] \in 1..12

\* C18: for a property with a non-negative square footage, a non-negative
\* rate and a month that is absent or in 1..12, estimate_monthly_bill returns
\* a number that is not negative, below the 800 square feet anchor of the
\* small tier and above the 5000 square feet anchor of the very_large tier too.
C18_BillNonNegative ==
    (op = "estimate_monthly_bill" /\ BillInputsValid)
        => IsNumber(result) /\ RLe(I(0), result)

\* a home below the lower anchor of the small tier with a positive bill
C18_Witness ==
    /\ BillEstimated(500) /\ BillInputsValid /\ PositiveRate
    /\ EstimateSucceeds
    /\ RLt(I(0), result) /\ RLt(result, BillAt(800))

----------------------------------------------------------------------------
(* The annual profile                                                       *)

\* the sum of the twelve monthly bills as the profile reports them
ReportedSum == AnnualTotal(result.monthly)

\* how far the reported annual_total is from that sum
ProfileGap == RAbs(RSub(ReportedSum, result.annual_total))

\* a value exactly halfway between two cents, where the rounding of the
\* binary floating-point value may go either way
IsTie(x) == RMul(x, I(100)).d = 2

\* none of the twelve bills nor their total is such a value
NoTies(bills) ==
    /\ \A m \in 1..12 : ~IsTie(bills[m])
    /\ ~IsTie(AnnualTotal(bills))

ProfileEstimated == op = "estimate_annual_bill_profile"

\* C19 as stated: in the result of estimate_annual_bill_profile the sum of
\* the twelve reported monthly bills differs from the reported annual_total
\* by at most 0.02 (stated for the profiles without a halfway value).
C19_ProfileSumsToTotal ==
    ProfileEstimated
        => \E bills \in {BillsOfYear(property_data, utility_data,
                                      current_year)} :
               NoTies(bills) => RLe(ProfileGap, Rat(2, 100))

\* C19 amended: the sum of the twelve reported monthly bills differs from
\* the reported annual_total by at most 0.07: half a cent for each of the
\* twelve roundings and for the rounding of the total.
C19_ProfileSumsToTotalWithin7 ==
    ProfileEstimated => RLe(ProfileGap, Rat(7, 100))

\* a profile without halfway values whose months add up to four cents more
\* than its annual_total
C19_Witness ==
    /\ ProfileEstimated
    /\ NoTies(BillsOfYear(property_data, utility_data, current_year))
    /\ ProfileGap = Rat(4, 100)
    /\ RLt(result.annual_total, ReportedSum)

----------------------------------------------------------------------------
(* BillEstimator with configured climate zones                              *)

\* config['climate_zones'] with a two-digit prefix: 750.. is in both zones
OverlappingZones ==
    <<[zone |-> "north", base_factor |-> Rat(100, 100),
       zip_prefixes |-> {<<7, 5>>}],
      [zone |-> "south", base_factor |-> Rat(115, 100),
       zip_prefixes |-> {<<7, 5, 0>>, <<7, 8, 7>>}]>>

\* config['climate_zones'] with a state-wide zone ahead of two local ones
NestedZones ==
    <<[zone |-> "south", base_factor |-> Rat(115, 100),
       zip_prefixes |-> {<<7>>}],
      [zone |-> "central", base_factor |-> Rat(105, 100),
       zip_prefixes |-> {<<7, 7>>}],
      [zone |-> "north", base_factor |-> Rat(100, 100),
       zip_prefixes |-> {<<7, 5, 0>>}]>>

ZoneConfigs == {ClimateZones, OverlappingZones, NestedZones}

\* records with the arguments of estimate_bill_by_zip_code
ZoneProperties ==
    {Field("square_footage", <<sf>>) @@ Field("year_built", yb)
       @@ Field("zip_code", <<zc>>) :
     sf \in {Num(500), Num(2000)}, yb \in Opt({2015}),
     zc \in {Str(Zip(75001)), Str(Zip(77001)), Str(Zip(78701)),
             Str(Zip(80201)), Str(<<>>), Num(78701)}}

\* estimate_bill_by_zip_code(zip_code, square_footage, year_built=2000,
\* bedrooms=3) with the fields of the record in hand as arguments
EstimateBillByZipCode ==
    /\ property_data # None
    /\ Has(property_data, "zip_code") /\ Has(property_data, "square_footage")
    /\ op' = "estimate_bill_by_zip_code"
    /\ result' = estimate_bill_by_zip_code(
                     property_data["zip_code"], property_data["square_footage"],
                     Get(property_data, "year_built", 2000),
                     Get(property_data, "bedrooms", 3), current_year)
    /\ UNCHANGED <<min_requirements, property_data, utility_data, roof_data,
                   owner_data, month, current_year, leads_data, utility_heap,
                   batch_results, climate_zones, weights, database>>

InitZones ==
    /\ climate_zones \in ZoneConfigs /\ weights = DefaultWeights
    /\ database = EmptyDatabase
    /\ property_data \in ZoneProperties
    /\ utility_data \in {None, [residential |-> Rat(15, 100)]}
    /\ month \in Months /\ current_year = 2025
    /\ min_requirements = DefaultMinRequirements
    /\ roof_data = None /\ owner_data = None
    /\ leads_data = <<>> /\ utility_heap = <<>>
    /\ op = "none" /\ result = None /\ batch_results = <<>>

NextZones == EstimateMonthlyBill \/ EstimateBillByZipCode

SpecZones == InitZones /\ [][NextZones]_vars

\* the zones, by position, with a prefix the zip_code of the record starts with
MatchingZones ==
    {i \in 1..Len(climate_zones) :
        \E prefix \in climate_zones[i].zip_prefixes :
            StartsWith(property_data["zip_code"].str, prefix)}

\* the zip_code of the record in hand is a string that matches several zones
SeveralZonesMatch ==
    /\ property_data # None /\ Has(property_data, "zip_code")
    /\ IsStr(property_data["zip_code"])
    /\ Cardinality(MatchingZones) > 1

\* the first of them in iteration order
FirstZone ==
    climate_zones[CHOOSE i \in MatchingZones : \A j \in MatchingZones : i <= j]

\* the bill of the same home at the rate of utility when no zone matches
BillWithoutZone(utility, mon) ==
    estimate_monthly_bill(Put(property_data, "zip_code", Str(<<>>)), utility,
                          mon, current_year)

\* C20: when the zip_code matches more than one configured zone, the first
\* matching zone in iteration order gives the climate factor of
\* estimate_monthly_bill, and the region and climate factor of
\* estimate_bill_by_zip_code; a later matching zone does not override it.
C20_FirstMatchingZoneWins ==
    /\ (op = "estimate_monthly_bill" /\ SeveralZonesMatch)
          => result = RMul(BillWithoutZone(utility_data, month),
                           FirstZone.base_factor)
    /\ (op = "estimate_bill_by_zip_code" /\ SeveralZonesMatch)
          => result = RMul(BillWithoutZone(
                               RegionUtility(UtilityRegion(FirstZone.zone)),
                               <<>>),
                           FirstZone.base_factor)

----------------------------------------------------------------------------
(* Worked examples                                                          *)

\* estimate_monthly_bill was called for the Austin home at $0.12 in July
AustinInJuly ==
    /\ op = "estimate_monthly_bill"
    /\ property_data = AustinHome
    /\ utility_data = [residential |-> Rat(12, 100)]
    /\ month = <<7>>

\* base usage on the line of the medium tier, times the four factors and
\* the rate
AustinBill(climate_factor) ==
    RMul(RMul(RMul(RMul(RMul(Line(1200, 800, 2500, 1200, I(2000)),
                             Rat(9, 10)),
                        I(1)),
                   climate_factor),
              Rat(15, 10)),
         Rat(12, 100))

\* C21 as stated: for the Austin home, $0.12 and July the bill is the medium
\* tier's base usage * 0.9 * 1.0 * 1.0 * 1.5 * 0.12, the climate factor being
\* the 1.0 of the north zone.
C21_AustinBillNorthZone == AustinInJuly => result = AustinBill(I(1))

\* C21 amended: the bill is the medium tier's base usage * 0.9 * 1.0 * 1.15
\* * 1.5 * 0.12: prefix "787" is in the south zone, whose factor is 1.15.
C21_AustinBillSouthZone == AustinInJuly => result = AustinBill(Rat(115, 100))

\* the July bill of the Austin home, a little under 195 dollars
C21_Witness ==
    /\ AustinInJuly
    /\ RLt(I(194), result) /\ RLt(result, I(195))
    /\ ClimateFactor(property_data["zip_code"].str) = Rat(115, 100)


\* analyze_roof_suitability was called for the good roof: 1000 square feet
\* facing south, 5% shaded, pitch 25, in good condition
GoodRoofAnalyzed == RoofAnalyzed /\ roof_data = GoodRoof

\* the unrounded weighted sum of the five component scores of the roof
RoofOverallOf ==
    RoofWeightedSum(calculate_orientation_score(roof_data),
                    calculate_area_score(roof_data),
                    calculate_shading_score(roof_data),
                    calculate_pitch_score(roof_data),
                    calculate_condition_score(roof_data))

\* the scores of the good roof other than for its area
GoodRoofOtherScores ==
    /\ calculate_orientation_score(roof_data) = I(100)
    /\ calculate_shading_score(roof_data) = Rat(875, 10)
    /\ calculate_pitch_score(roof_data) = I(100)
    /\ calculate_condition_score(roof_data) = I(80)
    /\ result.suitability = "excellent"

\* C22 as stated: for the good roof the scores are orientation 100, area
\* 87.5, shading 87.5, pitch 100 and condition 80, the weighted overall score
\* is 90.4 to one decimal, and the suitability is "excellent".
C22_GoodRoofScores904 ==
    GoodRoofAnalyzed
        => /\ GoodRoofOtherScores
           /\ calculate_area_score(roof_data) = Rat(875, 10)
           /\ RLe(Rat(9035, 100), RoofOverallOf)
           /\ RLt(RoofOverallOf, Rat(9045, 100))

\* C22 amended: the area score is 90 (80 at 800 square feet, 100 at 1200),
\* the weighted overall score is 93, reported as 93, the other scores and the
\* suitability are as stated.
C22_GoodRoofScores93 ==
    GoodRoofAnalyzed
        => /\ GoodRoofOtherScores
           /\ calculate_area_score(roof_data) = I(90)
           /\ RoofOverallOf = I(93)
           /\ result.overall_score = 93

\* the analysis of the good roof, with the scores as it reports them
C22_Witness ==
    /\ GoodRoofAnalyzed
    /\ result.component_scores.area = 90
    /\ result.component_scores.shading = 88
    /\ result.overall_score = 93

----------------------------------------------------------------------------
(* Component scores of the roof                                             *)

\* the angular distance from azimuth a to due south, the short way round
ShortWay(a) ==
    CHOOSE d \in 0..180 :
        /\ (a + d) % 360 = 180 \/ (a - d) % 360 = 180
        /\ \A e \in 0..(d - 1) :
               ~((a + e) % 360 = 180 \/ (a - e) % 360 = 180)

\* a roof with an azimuth in [0, 360] was analyzed
AzimuthAnalyzed ==
    /\ RoofAnalyzed
    /\ Has(roof_data, "azimuth")
    /\ roof_data["azimuth"] \in 0..360

\* C23: for an azimuth in [0, 360] the orientation score is
\* 100 - (d/180)*100, d being the angular distance to 180 degrees the short
\* way round; it is 100 at azimuth 180 and 0 at azimuth 0 and at azimuth 360.
C23_OrientationFromAzimuth ==
    AzimuthAnalyzed =>
        LET a == roof_data["azimuth"]
            score == calculate_orientation_score(roof_data)
        IN  /\ score = RSub(I(100), RMul(Rat(ShortWay(a), 180), I(100)))
            /\ result.component_scores.orientation = Round(score)
            /\ a = 180 => score = I(100)
            /\ a \in {0, 360} => score = I(0)

\* a roof facing due north, given as azimuth 360
C23_Witness ==
    /\ AzimuthAnalyzed
    /\ roof_data["azimuth"] = 360
    /\ ShortWay(360) = 180
    /\ result.component_scores.orientation = 0

----------------------------------------------------------------------------
(* The engines with configured weights                                      *)

\* config['weights'] for RoofAnalyzer: five equal weights, and weights that
\* add up to 1.5
RoofWeightConfigs ==
    {RoofWeights,
     [orientation |-> Rat(2, 10), area |-> Rat(2, 10), shading |-> Rat(2, 10),
      pitch |-> Rat(2, 10), condition |-> Rat(2, 10)],
     [orientation |-> Rat(5, 10), area |-> Rat(5, 10), shading |-> Rat(5, 10),
      pitch |-> I(0), condition |-> I(0)]}

\* config['weights'] for LeadScoringEngine: the same two kinds
LeadWeightConfigs ==
    {LeadWeights,
     [bill_size |-> Rat(2, 10), roof_suitability |-> Rat(2, 10),
      property_value |-> Rat(2, 10), net_metering |-> Rat(2, 10),
      homeowner |-> Rat(2, 10)],
     [bill_size |-> Rat(5, 10), roof_suitability |-> Rat(5, 10),
      property_value |-> Rat(2, 10), net_metering |-> Rat(2, 10),
      homeowner |-> Rat(1, 10)]}

InitWeights ==
    /\ weights \in [RoofAnalyzer : RoofWeightConfigs,
                     LeadScoringEngine : LeadWeightConfigs]
    /\ database = EmptyDatabase
    /\ property_data \in FewProperties /\ utility_data \in FewUtilities
    /\ roof_data \in FewRoofs \cup {[usable_roof_area |-> 399]}
    /\ owner_data \in FewOwners
    /\ min_requirements = DefaultMinRequirements
    /\ month = <<>> /\ current_year = 2025
    /\ leads_data = <<>> /\ utility_heap = <<>>
    /\ climate_zones = ClimateZones
    /\ op = "none" /\ result = None /\ batch_results = <<>>

NextWeights == AnalyzeRoofSuitability \/ CalculateOverallScore

SpecWeights == InitWeights /\ [][NextWeights]_vars

\* the sum of a weight set
WeightSum(w) ==
    LET RECURSIVE Sum(_)
        Sum(ks) == IF ks = {} THEN I(0)
                   ELSE LET k == CHOOSE x \in ks : TRUE
                        IN  RAdd(w[k], Sum(ks \ {k}))
    IN  Sum(DOMAIN w)

\* C24: the weights an engine has used add up to 1, under the defaults and
\* under a 'weights' mapping supplied in the configuration.
C24_WeightsSumToOne ==
    /\ RoofAnalyzed => WeightSum(weights.RoofAnalyzer) = I(1)
    /\ LeadScored => WeightSum(weights.LeadScoringEngine) = I(1)

----------------------------------------------------------------------------
(* The condition score                                                      *)

KnownConditions == {"excellent", "good", "fair", "poor", "very poor"}

\* the roof record names a condition of the table
ConditionKnown ==
    /\ Has(roof_data, "roof_condition")
    /\ Lower(roof_data["roof_condition"]) \in KnownConditions

\* the score of the six age bands
AgeBandScore(age) ==
    IF age <= 2 THEN 100 ELSE IF age <= 5 THEN 90 ELSE IF age <= 10 THEN 75
    ELSE IF age <= 15 THEN 60 ELSE IF age <= 20 THEN 40 ELSE 20

\* C25: the condition score is the table's when roof_condition is a known
\* category; otherwise, when roof_age is present, the score of its age band;
\* and 50 only when neither is usable.  A record with an unrecognised
\* roof_condition and a roof_age gets the age-band score.
C25_ConditionFallsBackToAge ==
    RoofAnalyzed =>
        result.component_scores.condition =
            IF ConditionKnown
                THEN ConditionTable(Lower(roof_data["roof_condition"]))
            ELSE IF Has(roof_data, "roof_age")
                THEN AgeBandScore(roof_data["roof_age"])
            ELSE 50

----------------------------------------------------------------------------
(* The age factor of the bill analysis                                      *)

\* analyze_bill_factors reported the age factor
AgeFactorReported ==
    /\ op = "analyze_bill_factors"
    /\ Has(result, "factors") /\ Has(result.factors, "age")

\* C26: in analyze_bill_factors the perturbed construction years both lie in
\* [1900, current_year - 5], whatever the year_built of the input.
C26_PerturbedYearsBounded ==
    AgeFactorReported =>
        /\ 1900 <= result.factors.age.newer
        /\ result.factors.age.newer <= current_year - 5
        /\ 1900 <= result.factors.age.older
        /\ result.factors.age.older <= current_year - 5

----------------------------------------------------------------------------
(* The service without utility data                                         *)

\* score_lead was called without utility data and returned a lead score
\* with component scores
ScoredWithoutUtility ==
    /\ op = "score_lead"
    /\ ~Truthy(utility_data)
    /\ Has(result, "lead_score")
    /\ Has(result["lead_score"], "component_scores")

\* C27: when score_lead is called without utility data (None or empty), the
\* net-metering component of its lead score is the neutral 50, as it is when
\* calculate_overall_score is called directly without utility data.
C27_NoUtilityNeutralMetering ==
    ScoredWithoutUtility
        => /\ result["lead_score"].component_scores.metering_score = 50
           /\ Round(calculate_net_metering_score(property_data, utility_data))
                  = 50

----------------------------------------------------------------------------
(* The reported score and its band                                          *)

\* a roof was analyzed and not disqualified
RoofNotDisqualified ==
    /\ RoofAnalyzed
    /\ ~RoofDisqualified(calculate_area_score(roof_data),
                         calculate_shading_score(roof_data))

\* the band table read on an integer score
BandOf(score) ==
    IF score >= 80 THEN "excellent" ELSE IF score >= 65 THEN "good"
    ELSE IF score >= 50 THEN "average" ELSE IF score >= 35 THEN "poor"
    ELSE "unsuitable"

\* C28: in a result of analyze_roof_suitability that is not disqualified the
\* reported (rounded) overall_score and the suitability label agree with the
\* band table: 80 and more "excellent", 65..79 "good", 50..64 "average",
\* 35..49 "poor", less "unsuitable".
C28_ScoreAndBandAgree ==
    RoofNotDisqualified => result.suitability = BandOf(result.overall_score)

----------------------------------------------------------------------------
(* The order of the disqualification checks                                 *)

\* the two checks of calculate_overall_score on the scored lead
BillCheckFails == RLt(LeadBillScore, I(min_requirements.monthly_bill))
RoofCheckFails == RLt(LeadRoofScore, I(min_requirements.roof_score))

\* C29: when both the bill check and the roof check fail, the recorded
\* reason is the bill reason; the roof reason is recorded only when the bill
\* check passes and the roof score is below 30.
C29_BillCheckedFirst ==
    LeadScored =>
        /\ (BillCheckFails /\ RoofCheckFails)
              => result.disqualification_reason
                     = "Monthly bill below minimum threshold"
        /\ result.disqualification_reason
                 = "Roof unsuitable for solar installation"
              => ~BillCheckFails /\ RLt(LeadRoofScore, I(30))

\* a lead with a bill of $119 and a roof score of 29
C29_Witness ==
    /\ LeadScored
    /\ LeadBill = I(119) /\ LeadRoofScore = I(29)
    /\ BillCheckFails /\ RoofCheckFails
    /\ result.disqualification_reason = "Monthly bill below minimum threshold"

----------------------------------------------------------------------------
(* DataEnrichmentPipeline *)

\* dict.update(other), {**a, **b}
Merge(d, other) ==
    [k \in DOMAIN d \cup DOMAIN other |->
        IF k \in DOMAIN other THEN other[k] ELSE d[k]]

_meets_basic_criteria(property) ==
    /\ Lower(Get(property, "property_type", "")) = "single-family"
    /\ Get(property, "is_owner_occupied", FALSE)
    /\ ~Get(property, "has_solar_installation", FALSE)
    /\ ~Get(property, "has_solar_permit", FALSE)

\* UtilityDataCollector.estimate_monthly_bill
collector_estimate_monthly_bill(square_footage, utility_rates) ==
    LET rate == Get(utility_rates, "residential", Rat(12, 100))
        annual_usage == RMul(I(square_footage), I(12))
        monthly_usage == RDiv(annual_usage, I(12))
    IN  RMul(monthly_usage, rate)

OrientationFactor(orientation) ==
    CASE orientation = "S" -> I(1)
      [] orientation \in {"SE", "SW"} -> Rat(95, 100)
      [] orientation \in {"E", "W"} -> Rat(85, 100)
      [] orientation \in {"NE", "NW"} -> Rat(75, 100)
      [] orientation = "N" -> Rat(65, 100)
      [] OTHER -> Rat(9, 10)

\* RoofDataCollector.estimate_solar_potential
estimate_solar_potential(roof, utility) ==
    LET usable_area == Get(roof, "usable_roof_area", 0)
        pitch == Get(roof, "pitch", 20)
        solar_irradiance == I(5)
        orientation_factor ==
            OrientationFactor(Get(roof, "primary_orientation", "S"))
        pitch_factor == IF pitch < 10 THEN Rat(9, 10)
                        ELSE IF pitch > 40 THEN Rat(95, 100) ELSE I(1)
        \* int(usable_area / 17.5)
        num_panels == (usable_area * 10) \div 175
        system_size == RMul(I(num_panels), Rat(3, 10))
        annual_production ==
            RMul(RMul(RMul(RMul(RMul(system_size, solar_irradiance), I(365)),
                           orientation_factor), pitch_factor), Rat(75, 100))
        rate == Get(utility, "residential", Rat(12, 100))
        annual_savings == RMul(annual_production, rate)
        system_cost == RMul(RMul(system_size, I(1000)), I(3))
        financial_metrics ==
            IF Truthy(utility)
            THEN [annual_savings |-> annual_savings,
                  system_cost |-> system_cost,
                  payback_period |-> IF RLt(I(0), annual_savings)
                                     THEN RDiv(system_cost, annual_savings)
                                     ELSE I(0)]
            ELSE EmptyDict
    IN  Merge([system_size |-> system_size,
               annual_production |-> annual_production,
               num_panels |-> num_panels], financial_metrics)

Clamp100(score) == IF score < 0 THEN 0 ELSE IF score > 100 THEN 100 ELSE score

_calculate_lead_score(property, utility, roof, owner) ==
    LET year_built == Get(property, "year_built", 0)
        age == IF year_built > 0 /\ year_built < 1970 THEN -5
               ELSE IF year_built > 2010 THEN 5 ELSE 0
        value == IF Get(property, "assessed_value", 0) > 500000 THEN 5 ELSE 0
        size == IF Get(property, "square_footage", 0) > 2500 THEN 5 ELSE 0
        monthly_bill == Get(utility, "estimated_monthly_bill", I(0))
        bill == IF RLt(I(200), monthly_bill) THEN 15
                ELSE IF RLt(I(150), monthly_bill) THEN 10
                ELSE IF RLt(I(120), monthly_bill) THEN 5 ELSE -10
        metering == IF Get(utility, "has_net_metering", FALSE) THEN 15 ELSE 0
        usable_area == Get(roof, "usable_roof_area", 0)
        area == IF usable_area > 1000 THEN 10
                ELSE IF usable_area < 500 THEN -10 ELSE 0
        orientation == Get(roof, "primary_orientation", "")
        facing == IF orientation \in {"S", "SE", "SW"} THEN 15
                  ELSE IF orientation \in {"E", "W"} THEN 5 ELSE -15
        shading == Get(roof, "shading_percentage", 0)
        shade == IF shading < 10 THEN 15 ELSE IF shading < 20 THEN 5 ELSE -15
        owned == IF Get(owner, "length_of_ownership", 0) > 5 THEN 5 ELSE 0
        dnc == IF Get(owner, "do_not_call", FALSE) THEN -10 ELSE 0
    IN  Clamp100(50
                 + (IF Truthy(property) THEN age + value + size ELSE 0)
                 + (IF Truthy(utility) THEN bill + metering ELSE 0)
                 + (IF Truthy(roof) THEN area + facing + shade ELSE 0)
                 + (IF Truthy(owner) THEN owned + dnc ELSE 0))

\* the names process_property has bound when it reaches Step 7: a name is
\* local once an assignment to it has run
LocalsAtStep7(got_utility, has_coordinates, got_roof, got_owner) ==
    {"self", "address", "city", "state", "zip_code", "property_data",
     "property_id", "utility_data", "owner_data"}
    \cup (IF got_utility THEN {"square_footage"} ELSE {})
    \cup (IF has_coordinates THEN {"roof_data"} ELSE {})
    \cup (IF got_roof THEN {"solar_potential"} ELSE {})
    \cup (IF got_owner THEN {"homeowner_id"} ELSE {})

\* process_property: fetched holds what the four collectors answer for the
\* address, executed tells which of the database's inserts go through.
\* Returns the method's result and the database it leaves.
process_property(fetched, db, executed, now) ==
    IF ~Truthy(fetched.property) \/ ~_meets_basic_criteria(fetched.property)
    THEN [result |-> None, database |-> db]
    ELSE
    LET step3 == Insert(db, "Property", "property_id", fetched.property,
                        executed.Property, now)
        property_id == step3.id
        property == step3.data
        \* Step 4
        got_utility == Truthy(fetched.utility)
        step4 ==
            IF got_utility
            THEN Insert(step3.db, "Utility", "utility_id",
                        Put(Put(fetched.utility, "estimated_monthly_bill",
                                collector_estimate_monthly_bill(
                                    Get(property, "square_footage", 0),
                                    fetched.utility)),
                            "property_id", property_id),
                        executed.Utility, now)
            ELSE [id |-> None, data |-> fetched.utility, db |-> step3.db]
        utility == step4.data
        \* Step 5
        has_coordinates == Has(property, "latitude") /\ Has(property, "longitude")
        got_roof == has_coordinates /\ Truthy(fetched.roof)
        solar_potential == estimate_solar_potential(fetched.roof, utility)
        step5 ==
            IF got_roof
            THEN Insert(step4.db, "Roof", "roof_id",
                        Put(Merge(fetched.roof, solar_potential),
                            "property_id", property_id),
                        executed.Roof, now)
            ELSE [id |-> None, data |-> fetched.roof, db |-> step4.db]
        roof == step5.data
        \* Step 6
        got_owner == Truthy(fetched.owner)
        step6 ==
            IF got_owner
            THEN Insert(step5.db, "Homeowner", "homeowner_id",
                        Put(fetched.owner, "property_id", property_id),
                        executed.Homeowner, now)
            ELSE [id |-> None, data |-> fetched.owner, db |-> step5.db]
        homeowner_id == step6.id
        owner == step6.data
        locals == LocalsAtStep7(got_utility, has_coordinates, got_roof,
                                got_owner)
        \* Step 7
        all_data == /\ got_owner /\ homeowner_id # None
                    /\ "roof_id" \in locals /\ "utility_id" \in locals
        estimate(k) == IF "solar_potential" \in locals
                       THEN Get(solar_potential, k, 0) ELSE 0
        lead_data ==
            [property_id |-> property_id, homeowner_id |-> homeowner_id,
             lead_score |-> _calculate_lead_score(property, utility, roof,
                                                  owner),
             lead_status |-> "new",
             estimated_savings |-> estimate("annual_savings"),
             estimated_system_size |-> estimate("system_size"),
             estimated_installation_cost |-> estimate("system_cost"),
             estimated_payback_period |-> estimate("payback_period")]
        step7 == IF all_data THEN InsertLead(step6.db, lead_data,
                                             executed.Lead, now)
                 ELSE [id |-> None, db |-> step6.db]
    IN  IF property_id = None
        THEN [result |-> None, database |-> step3.db]
        ELSE [result |->
                 [property_id |-> property_id, property_data |-> property,
                  utility_data |-> utility,
                  roof_data |-> IF has_coordinates THEN roof ELSE None,
                  owner_data |-> owner,
                  lead_id |-> step7.id],
              database |-> step7.db]

\* how many insert calls the database records before the pipeline stops
\* taking work
MaxDbCalls == 4

\* one call of process_property; property_data, utility_data, roof_data and
\* owner_data are what the collectors answer for the address
ProcessProperty ==
    /\ Len(database.calls) < MaxDbCalls
    /\ \E executed \in [{"Property", "Utility", "Roof", "Homeowner", "Lead"}
                            -> BOOLEAN] :
         \E r \in {process_property(
                      [property |-> property_data, utility |-> utility_data,
                       roof |-> roof_data, owner |-> owner_data],
                      database, executed, current_year)} :
            /\ result' = r.result
            /\ database' = r.database
    /\ op' = "process_property"
    /\ UNCHANGED <<min_requirements, property_data, utility_data, roof_data,
                   owner_data, month, current_year, leads_data, utility_heap,
                   batch_results, climate_zones, weights>>

\* PropertyDataCollector.fetch_property_by_address answers
FamilyHome ==
    [property_type |-> "Single-Family", is_owner_occupied |-> TRUE,
     has_solar_installation |-> FALSE, has_solar_permit |-> FALSE,
     square_footage |-> 2000, year_built |-> 2015, assessed_value |-> 350000,
     latitude |-> 30, longitude |-> -97]

PipelineProperties ==
    {None, FamilyHome,
     [FamilyHome EXCEPT !.property_type = "single-family",
                        !.square_footage = 3000],
     [FamilyHome EXCEPT !.property_type = "condo"],
     [FamilyHome EXCEPT !.is_owner_occupied = FALSE],
     [FamilyHome EXCEPT !.has_solar_installation = TRUE],
     [FamilyHome EXCEPT !.has_solar_permit = TRUE],
     [property_type |-> "Single-Family", is_owner_occupied |-> TRUE,
      square_footage |-> 1500]}

\* UtilityDataCollector.fetch_utility_rates_by_zip answers
PipelineUtilities ==
    {None, [utility_provider |-> "Austin Energy", residential |-> Rat(12, 100),
            has_net_metering |-> TRUE]}

\* RoofDataCollector.fetch_roof_data answers
PipelineRoofs ==
    {None, [usable_roof_area |-> 1000, primary_orientation |-> "S",
            pitch |-> 25, shading_percentage |-> 5]}

\* SkipTracer.trace_property_owner answers
PipelineOwners ==
    {None, [first_name |-> "Pat", length_of_ownership |-> 8,
            do_not_call |-> FALSE]}

InitPipeline ==
    /\ property_data \in PipelineProperties
    /\ utility_data \in PipelineUtilities
    /\ roof_data \in PipelineRoofs
    /\ owner_data \in PipelineOwners
    /\ month = <<>> /\ current_year = 2025
    /\ min_requirements = DefaultMinRequirements
    /\ climate_zones = ClimateZones /\ weights = DefaultWeights
    /\ database = EmptyDatabase
    /\ leads_data = <<>> /\ utility_heap = <<>>
    /\ op = "none" /\ result = None /\ batch_results = <<>>

NextPipeline == ProcessProperty

SpecPipeline == InitPipeline /\ [][NextPipeline]_vars

\* the call just returned a result for a property that passed the criteria
Processed == op = "process_property" /\ result # None

\* a row of the table belongs to the property the call just processed
Stored(table) ==
    \E i \in DOMAIN database[table] :
        database[table][i]["property_id"] = result.property_id

\* the property, utility, roof and homeowner records were all fetched and
\* inserted
AllDataAvailable ==
    /\ Processed
    /\ Stored("Property") /\ Stored("Utility") /\ Stored("Roof")
    /\ Stored("Homeowner")

InsertLeadCalled ==
    \E i \in DOMAIN database.calls :
        database.calls[i] = [method |-> "Lead",
                             property_id |-> result.property_id]

\* C30: when process_property returns for a property that passed the basic
\* criteria and whose property, utility, roof and homeowner records were
\* all fetched and inserted, insert_lead has been called for it and the
\* result carries a lead_id that is not None.
C30_LeadCreatedWhenAllDataAvailable ==
    AllDataAvailable => InsertLeadCalled /\ result.lead_id # None

====
